---- MODULE Spec2Model ----
(***************************************************************************)
(* Data layer of the storefront: validation/sanitization (utils/security), *)
(* the cart state controller (useCartProducts) and the error taxonomy and  *)
(* retry engine (utils/error-handling).                                    *)
(*                                                                         *)
(* JavaScript values are tagged records: [t |-> "undefined"],              *)
(* [t |-> "null"], [t |-> "boolean", b], [t |-> "number", c, m],           *)
(* [t |-> "string", s], [t |-> "array", a] and [t |-> "object", ...].      *)
(* A string is a sequence of one-character strings.  A finite number is    *)
(* held in thousandths (m); c tells finite numbers from NaN, from the      *)
(* infinities and from finite integers above Number.MAX_SAFE_INTEGER.      *)
(***************************************************************************)
EXTENDS Integers, Sequences, FiniteSets, TLC

VARIABLES
  products,     \* cart context state: the line-item collection (setProducts)
  snapshot,     \* `products` as captured by the last evaluation of the hook
  total,        \* cart total written by updateCartTotal
  cartOp,       \* record of the last cart operation (history)
  opCount,      \* number of cart operations invoked so far (history)
  retryConfig,  \* ErrorHandler.retryConfig
  pc,           \* position of retryWithBackoff
  retryCount,   \* retryCount parameter of the current retryWithBackoff frame
  calls,        \* number of invocations of the operation (history)
  waits,        \* backoff delays waited so far, in order (history)
  lastError,    \* classified error of the last failed attempt
  allRetryable, \* every failed attempt so far was classified retryable (history)
  retryResult,  \* outcome of retryWithBackoff
  axiosError,   \* input of parseAxiosError
  apiError,     \* result of parseAxiosError
  isProduction, \* services/products: the page is not served from localhost
  fixture,      \* services/products: what loading the local fixture yields
  isFetching,   \* products context state
  catalogProducts, \* products context state `products`
  filters,      \* products context state
  allProductsCache, \* useProducts: allProductsCache.current
  isInitialized,    \* useProducts: isInitialized.current
  errorState,   \* useProducts state `error`
  isRetrying,   \* useProducts state
  tasks,        \* catalog operations suspended at an await, in call order
  catalogOps,   \* number of catalog operations called so far (history)
  catalogOp,    \* the last call and the last two completions (history)
  checked,      \* utils/security: the function under evaluation and its input
  verdict,      \* utils/security: what the function returned
  toggled       \* size labels toggled an odd number of times (history)

cartVars == <<products, snapshot, total, cartOp, opCount>>
retryVars == <<retryConfig, pc, retryCount, calls, waits, lastError,
               allRetryable, retryResult>>
classifyVars == <<axiosError, apiError>>
catalogVars == <<isProduction, fixture, isFetching, catalogProducts, filters,
                 allProductsCache, isInitialized, errorState, isRetrying,
                 tasks, catalogOps, catalogOp>>
securityVars == <<checked, verdict>>
filterVars == <<toggled>>
vars == <<cartVars, retryVars, classifyVars, catalogVars, securityVars,
          filterVars>>

----------------------------------------------------------------------------
(* JavaScript values *)

Undefined == [t |-> "undefined"]
Null == [t |-> "null"]
Bool(b) == [t |-> "boolean", b |-> b]
NaN == [t |-> "number", c |-> "nan", m |-> 0]
Huge == [t |-> "number", c |-> "huge", m |-> 0]
Milli(m) == [t |-> "number", c |-> "fin", m |-> m]
Num(i) == Milli(i * 1000)
Str(s) == [t |-> "string", s |-> s]
Arr(a) == [t |-> "array", a |-> a]

IsString(v) == v.t = "string"

Min(a, b) == IF a <= b THEN a ELSE b

RECURSIVE Pow(_, _)
Pow(b, n) == IF n = 0 THEN 1 ELSE b * Pow(b, n - 1)

(* String helpers *)

LowerChars == <<"a", "b", "c", "d", "e", "f", "g", "h", "i", "j", "k", "l", "m",
                "n", "o", "p", "q", "r", "s", "t", "u", "v", "w", "x", "y", "z">>
UpperChars == <<"A", "B", "C", "D", "E", "F", "G", "H", "I", "J", "K", "L", "M",
                "N", "O", "P", "Q", "R", "S", "T", "U", "V", "W", "X", "Y", "Z">>

UpperOf == [ch \in {LowerChars[i] : i \in 1..26} |->
              UpperChars[CHOOSE i \in 1..26 : LowerChars[i] = ch]]

UpperChar(ch) == IF ch \in DOMAIN UpperOf THEN UpperOf[ch] ELSE ch

toUpperCase(s) == [i \in 1..Len(s) |-> UpperChar(s[i])]

WhiteSpace == {" "}

RECURSIVE TrimStart(_)
TrimStart(s) ==
  IF s # <<>> /\ Head(s) \in WhiteSpace THEN TrimStart(Tail(s)) ELSE s

RECURSIVE TrimEnd(_)
TrimEnd(s) ==
  IF s # <<>> /\ s[Len(s)] \in WhiteSpace
  THEN TrimEnd(SubSeq(s, 1, Len(s) - 1)) ELSE s

trim(s) == TrimEnd(TrimStart(s))

substring(s, from, to) == SubSeq(s, from + 1, Min(to, Len(s)))

Digits == <<"0", "1", "2", "3", "4", "5", "6", "7", "8", "9">>
IsDigit(ch) == \E i \in 1..10 : Digits[i] = ch
DigitVal(ch) == (CHOOSE i \in 1..10 : Digits[i] = ch) - 1

RECURSIVE ParseDigits(_, _)
ParseDigits(s, acc) ==
  IF s = <<>> THEN acc ELSE ParseDigits(Tail(s), acc * 10 + DigitVal(Head(s)))

(* Number(x) for the values of the model: numbers, undefined, null,        *)
(* booleans and strings of decimal digits (any other string gives NaN).    *)
StringToNumber(s) ==
  IF \A i \in 1..Len(s) : IsDigit(s[i]) THEN Num(ParseDigits(s, 0)) ELSE NaN

ToNumber(v) ==
  CASE v.t = "number" -> v
    [] v.t = "null" -> Num(0)
    [] v.t = "boolean" -> IF v.b THEN Num(1) ELSE Num(0)
    [] v.t = "string" -> StringToNumber(trim(v.s))
    [] OTHER -> NaN

NumberIsInteger(n) == (n.c = "fin" /\ n.m % 1000 = 0) \/ n.c = "huge"
\* n <= Number.MAX_SAFE_INTEGER, for a number n that is not NaN
LeqMaxSafeInteger(n) == n.c = "fin" \/ n.c = "neginf"
NumberIsFinite(n) == n.c = "fin" \/ n.c = "huge"
\* n > bound and n <= bound, for a number n and a bound held in units
Gt(n, bound) == (n.c = "fin" /\ n.m > bound * 1000) \/ n.c \in {"huge", "inf"}
Geq(n, bound) == (n.c = "fin" /\ n.m >= bound * 1000) \/ n.c \in {"huge", "inf"}
Leq(n, bound) == (n.c = "fin" /\ n.m <= bound * 1000) \/ n.c = "neginf"

----------------------------------------------------------------------------
(* utils/security: sanitizers and field validators *)

\* the grave accent U+0060, which a TLA+ string cannot hold
Backtick == "U+0060"

\* mutant: the equals sign is left as it is
htmlEntities_EqualsKept(ch) ==
  CASE ch = "&" -> <<"&", "a", "m", "p", ";">>
    [] ch = "<" -> <<"&", "l", "t", ";">>
    [] ch = ">" -> <<"&", "g", "t", ";">>
    [] ch = "\"" -> <<"&", "q", "u", "o", "t", ";">>
    [] ch = "'" -> <<"&", "#", "x", "2", "7", ";">>
    [] ch = "/" -> <<"&", "#", "x", "2", "F", ";">>
    [] ch = Backtick -> <<"&", "#", "x", "6", "0", ";">>
    [] OTHER -> <<ch>>

htmlEntities(ch) ==
  CASE ch = "&" -> <<"&", "a", "m", "p", ";">>
    [] ch = "<" -> <<"&", "l", "t", ";">>
    [] ch = ">" -> <<"&", "g", "t", ";">>
    [] ch = "\"" -> <<"&", "q", "u", "o", "t", ";">>
    [] ch = "'" -> <<"&", "#", "x", "2", "7", ";">>
    [] ch = "/" -> <<"&", "#", "x", "2", "F", ";">>
    [] ch = Backtick -> <<"&", "#", "x", "6", "0", ";">>
    [] ch = "=" -> <<"&", "#", "x", "3", "D", ";">>
    [] OTHER -> <<ch>>

\* s[lo..hi] with every character replaced by htmlEntities
RECURSIVE EscapeRange(_, _, _)
EscapeRange(s, lo, hi) ==
  IF lo > hi THEN <<>>
  ELSE IF lo = hi THEN htmlEntities(s[lo])
  ELSE LET mid == (lo + hi) \div 2 IN
       EscapeRange(s, lo, mid) \o EscapeRange(s, mid + 1, hi)

\* the result is a model string, empty for a non-string input
sanitizeHtml(input) ==
  IF ~IsString(input) THEN <<>> ELSE EscapeRange(input.s, 1, Len(input.s))

\* s.replace(/<[^>]*>/g, ''): a character is removed when it lies between a
\* '<' and the first '>' that follows it, both included
InTag(s, i) ==
  \E p \in 1..i :
    /\ s[p] = "<"
    /\ \A l \in (p + 1)..(i - 1) : s[l] # ">"
    /\ \E q \in i..Len(s) : q > p /\ s[q] = ">"

StripChar(s, i) == IF InTag(s, i) THEN <<>> ELSE <<s[i]>>

RECURSIVE StripRange(_, _, _)
StripRange(s, lo, hi) ==
  IF lo > hi THEN <<>>
  ELSE IF lo = hi THEN StripChar(s, lo)
  ELSE LET mid == (lo + hi) \div 2 IN
       StripRange(s, lo, mid) \o StripRange(s, mid + 1, hi)

StripTags(s) == StripRange(s, 1, Len(s))

UnknownProduct ==
  <<"U", "n", "k", "n", "o", "w", "n", " ", "P", "r", "o", "d", "u", "c", "t">>
Ellipsis == <<".", ".", ".">>
MaxTitleLength == 100
MaxDescriptionLength == 500

\* mutant: the title is cut one character later
limitTitle_CutLate(sanitized) ==
  IF Len(sanitized) > MaxTitleLength
  THEN substring(sanitized, 0, MaxTitleLength + 1) \o Ellipsis
  ELSE sanitized

\* the length limit of a sanitized title
limitTitle(sanitized) ==
  IF Len(sanitized) > MaxTitleLength
  THEN substring(sanitized, 0, MaxTitleLength) \o Ellipsis
  ELSE sanitized

sanitizeProductTitle(title) ==
  IF ~IsString(title) THEN UnknownProduct
  ELSE limitTitle(sanitizeHtml(Str(StripTags(title.s))))

\* the length limit of a sanitized description
limitDescription(sanitized) ==
  IF Len(sanitized) > MaxDescriptionLength
  THEN substring(sanitized, 0, MaxDescriptionLength) \o Ellipsis
  ELSE sanitized

sanitizeProductDescription(description) ==
  IF ~IsString(description) THEN <<>>
  ELSE limitDescription(sanitizeHtml(Str(StripTags(description.s))))

\* validators return a JavaScript value; Null stands for the null result.
\* Each validator converts its input and hands the converted value to its
\* acceptance test.
acceptProductId(numId) ==
  IF NumberIsInteger(numId) /\ Gt(numId, 0) /\ LeqMaxSafeInteger(numId)
  THEN numId ELSE Null

validateProductId(id) == acceptProductId(ToNumber(id))

acceptProductSku(numSku) ==
  IF NumberIsInteger(numSku) /\ Gt(numSku, 0) /\ LeqMaxSafeInteger(numSku)
  THEN numSku ELSE Null

validateProductSku(sku) == acceptProductSku(ToNumber(sku))

MaxPrice == 1000000

(* Math.round(numPrice * 100) / 100 in IEEE 754 double precision, for a    *)
(* price of m thousandths.  numPrice is the double nearest to m/1000 and   *)
(* numPrice * 100 is rounded to a double again.  Off a tie (m % 10 # 5)    *)
(* both errors are far too small to change Math.round.  On a tie the       *)
(* product is exactly k + 0.5 unless numPrice lies below m/1000 by more    *)
(* than 0.32 units of its last place and the product keeps the 6 extra     *)
(* exponent bits of the factor 100; then it is the double just below       *)
(* k + 0.5 and Math.round gives k.                                         *)

\* 2^n modulo 1000
RECURSIVE PowerOfTwoMod(_)
PowerOfTwoMod(n) == IF n = 0 THEN 1 ELSE (2 * PowerOfTwoMod(n - 1)) % 1000

\* the binary exponent a of m/1000: 2^a <= m/1000 < 2^(a+1), for m >= 1
binaryExponent(m) ==
  IF m >= 1000
  THEN CHOOSE a \in 0..20 : 1000 * Pow(2, a) <= m /\ m < 1000 * Pow(2, a + 1)
  ELSE 0 - (CHOOSE n \in 1..10 :
              1000 <= m * Pow(2, n) /\ m * Pow(2, n) < 2000)

\* (m/1000) * 100 has the exponent a + 6: its significand is below 2
keepsExponent(m, a) ==
  IF a >= 0 THEN m < 1280 * Pow(2, a) ELSE m * Pow(2, 0 - a) < 1280

\* the thousandths of a unit in the last place by which m/1000 exceeds the
\* 53-bit significand below it
significandRest(m, a) == ((m % 1000) * PowerOfTwoMod(52 - a)) % 1000

tieLostAt(m, a, rest) == keepsExponent(m, a) /\ rest > 320 /\ rest < 500

\* numPrice * 100 is the double just below the tie k + 0.5
tieLost(m) ==
  /\ m % 10 = 5
  /\ tieLostAt(m, binaryExponent(m),
               significandRest(m, binaryExponent(m)))

\* Math.round(numPrice * 100) / 100, in thousandths
roundToCents(m) ==
  IF tieLost(m) THEN (m \div 10) * 10 ELSE ((m + 5) \div 10) * 10

acceptProductPrice(numPrice) ==
  IF NumberIsFinite(numPrice) /\ Geq(numPrice, 0) /\ Leq(numPrice, MaxPrice)
  THEN Milli(roundToCents(numPrice.m))
  ELSE Null

validateProductPrice(price) == acceptProductPrice(ToNumber(price))

MaxQuantity == 1000

acceptProductQuantity(numQuantity) ==
  IF NumberIsInteger(numQuantity) /\ Gt(numQuantity, 0)
     /\ Leq(numQuantity, MaxQuantity)
  THEN numQuantity ELSE Null

validateProductQuantity(quantity) == acceptProductQuantity(ToNumber(quantity))

validCurrencies ==
  {<<"U", "S", "D">>, <<"E", "U", "R">>, <<"G", "B", "P">>, <<"C", "A", "D">>,
   <<"A", "U", "D">>, <<"J", "P", "Y">>, <<"C", "H", "F">>, <<"C", "N", "Y">>}

acceptCurrencyId(sanitized) ==
  IF sanitized \in validCurrencies THEN Str(sanitized) ELSE Null

validateCurrencyId(currencyId) ==
  IF ~IsString(currencyId) THEN Null
  ELSE acceptCurrencyId(trim(toUpperCase(currencyId.s)))

MaxCurrencyFormatLength == 10

acceptCurrencyFormat(sanitized) ==
  IF Len(sanitized) > 0 /\ Len(sanitized) <= MaxCurrencyFormatLength
  THEN Str(sanitized) ELSE Null

validateCurrencyFormat(format) ==
  IF ~IsString(format) THEN Null
  ELSE acceptCurrencyFormat(sanitizeHtml(Str(trim(format.s))))

validSizes ==
  {<<"X", "S">>, <<"S">>, <<"M">>, <<"M", "L">>, <<"L">>, <<"X", "L">>,
   <<"X", "X", "L">>}
MaxSizes == 10

IsValidSize(size) == IsString(size) /\ toUpperCase(size.s) \in validSizes

\* .map(size => size.toUpperCase())
UpperSizes(kept) == [i \in 1..Len(kept) |-> Str(toUpperCase(kept[i].s))]

FilterSizes(a) == UpperSizes(SelectSeq(a, IsValidSize))

\* a.slice(from, to) for 0 <= from
slice(a, from, to) == SubSeq(a, from + 1, Min(to, Len(a)))

\* mutant: the result is not capped
validateAvailableSizes_NoCap(sizes) ==
  IF sizes.t # "array" THEN Arr(<<>>)
  ELSE Arr(FilterSizes(sizes.a))

validateAvailableSizes(sizes) ==
  IF sizes.t # "array" THEN Arr(<<>>)
  ELSE Arr(slice(FilterSizes(sizes.a), 0, MaxSizes))

MaxStyleLength == 50

acceptProductStyle(sanitized) ==
  IF Len(sanitized) > 0 /\ Len(sanitized) <= MaxStyleLength
  THEN Str(sanitized) ELSE Null

validateProductStyle(style) ==
  IF ~IsString(style) THEN Null
  ELSE acceptProductStyle(sanitizeHtml(Str(trim(style.s))))

\* Boolean(value)
validateBoolean(value) ==
  CASE value.t = "undefined" -> FALSE
    [] value.t = "null" -> FALSE
    [] value.t = "boolean" -> value.b
    [] value.t = "number" -> ~(value.c = "nan" \/ (value.c = "fin" /\ value.m = 0))
    [] value.t = "string" -> value.s # <<>>
    [] OTHER -> TRUE

----------------------------------------------------------------------------
(* utils/security: validateProduct and validateCartProduct *)

\* a product object; a missing property reads as undefined
Product(id, sku, title, description, price, installments, currencyId, currencyFormat, availableSizes, style, isFreeShipping, quantity) ==
  [t |-> "object", id |-> id, sku |-> sku, title |-> title,
   description |-> description, price |-> price,
   installments |-> installments, currencyId |-> currencyId,
   currencyFormat |-> currencyFormat, availableSizes |-> availableSizes,
   style |-> style, isFreeShipping |-> isFreeShipping, quantity |-> quantity]

USD == <<"U", "S", "D">>
Dollar == <<"$">>
UnknownStyle == <<"U", "n", "k", "n", "o", "w", "n">>

\* the errors and the validatedProduct that validateProduct builds from the
\* results of its field validators
collectValidation(id, sku, title, description, price, installments, currencyId, currencyFormat, availableSizes, style, isFreeShipping) ==
  LET titleBad == title = <<>> \/ title = UnknownProduct
      errors ==
        (IF id = Null THEN <<"Invalid product ID">> ELSE <<>>)
        \o (IF sku = Null THEN <<"Invalid product SKU">> ELSE <<>>)
        \o (IF titleBad THEN <<"Invalid product title">> ELSE <<>>)
        \o (IF price = Null THEN <<"Invalid product price">> ELSE <<>>)
        \o (IF currencyId = Null THEN <<"Invalid currency ID">> ELSE <<>>)
        \o (IF currencyFormat = Null
            THEN <<"Invalid currency format">> ELSE <<>>)
        \o (IF style = Null THEN <<"Invalid product style">> ELSE <<>>)
      validatedProduct ==
        Product(IF id = Null THEN Undefined ELSE id,
                IF sku = Null THEN Undefined ELSE sku,
                IF titleBad THEN Undefined ELSE Str(title),
                Str(description),
                IF price = Null THEN Undefined ELSE price,
                IF installments = Null THEN Num(0) ELSE installments,
                IF currencyId = Null THEN Str(USD) ELSE currencyId,
                IF currencyFormat = Null THEN Str(Dollar) ELSE currencyFormat,
                availableSizes,
                IF style = Null THEN Str(UnknownStyle) ELSE style,
                Bool(isFreeShipping),
                Undefined)
  IN [isValid |-> errors = <<>>, sanitizedProduct |-> validatedProduct,
      errors |-> errors]

\* an object without any of the properties read by the validators
NoProperties ==
  Product(Undefined, Undefined, Undefined, Undefined, Undefined, Undefined,
          Undefined, Undefined, Undefined, Undefined, Undefined, Undefined)

\* typeof product === 'object' holds for an array too, whose properties of
\* these names are all undefined
propertiesOf(product) == IF product.t = "array" THEN NoProperties ELSE product

\* mutant: a failed style is replaced by its fallback without an error
validateProperties_StyleOptional(product) ==
  collectValidation(validateProductId(product.id),
                    validateProductSku(product.sku),
                    sanitizeProductTitle(product.title),
                    sanitizeProductDescription(product.description),
                    validateProductPrice(product.price),
                    validateProductQuantity(product.installments),
                    validateCurrencyId(product.currencyId),
                    validateCurrencyFormat(product.currencyFormat),
                    validateAvailableSizes(product.availableSizes),
                    Str(UnknownStyle),
                    validateBoolean(product.isFreeShipping))

\* validateProduct after its guard
validateProperties(product) ==
  collectValidation(validateProductId(product.id),
                    validateProductSku(product.sku),
                    sanitizeProductTitle(product.title),
                    sanitizeProductDescription(product.description),
                    validateProductPrice(product.price),
                    validateProductQuantity(product.installments),
                    validateCurrencyId(product.currencyId),
                    validateCurrencyFormat(product.currencyFormat),
                    validateAvailableSizes(product.availableSizes),
                    validateProductStyle(product.style),
                    validateBoolean(product.isFreeShipping))

\* if (!product || typeof product !== 'object')
validateProduct(product) ==
  IF product.t \notin {"object", "array"}
  THEN [isValid |-> FALSE, sanitizedProduct |-> Undefined,
        errors |-> <<"Invalid product data">>]
  ELSE validateProperties(propertiesOf(product))

\* the quantity step of validateCartProduct, for a product that passed
\* validateProduct
collectQuantity(productValidation, quantity) ==
  LET errors == productValidation.errors
                \o (IF quantity = Null
                    THEN <<"Invalid product quantity">> ELSE <<>>)
      validatedCartProduct ==
        IF quantity = Null THEN productValidation.sanitizedProduct
        ELSE [productValidation.sanitizedProduct EXCEPT !.quantity = quantity]
  IN [isValid |-> errors = <<>>, sanitizedProduct |-> validatedCartProduct,
      errors |-> errors]

\* mutant: the quantity is checked whatever the base validation said
checkCartProduct_NoEarlyReturn(cartProduct, productValidation) ==
  collectQuantity(productValidation,
                  validateProductQuantity(IF cartProduct.t = "object"
                                          THEN cartProduct.quantity
                                          ELSE Undefined))

checkCartProduct(cartProduct, productValidation) ==
  IF ~productValidation.isValid THEN productValidation
  ELSE collectQuantity(productValidation,
                       validateProductQuantity(cartProduct.quantity))

validateCartProduct(cartProduct) ==
  checkCartProduct(cartProduct, validateProduct(cartProduct))

----------------------------------------------------------------------------
(* utils/security evaluated on its own: one function is applied to one     *)
(* input                                                                   *)

\* a string of n characters ch
Rep(ch, n) == [i \in 1..n |-> ch]

ImgTag ==
  <<"<", "i", "m", "g", " ", "s", "r", "c", "=", "x", " ", "o", "n", "e", "r",
    "r", "o", "r", "=", "a", "l", "e", "r", "t", "(", "1", ")", ">">>

SpecialChars == <<"&", "<", ">", "\"", "'", "/", Backtick, "=">>

NonStrings == {Undefined, Null, Num(5), Bool(TRUE), Arr(<<>>)}

HtmlInputs ==
  {Str(<<>>), Str(ImgTag), Str(SpecialChars), Str(<<"a", "&", "b">>),
   Str(<<"&", "a", "m", "p", ";">>), Str(SpecialChars \o SpecialChars),
   Str(<<"a", "=", "'", "b", "'">>)}
  \cup {Str(<<SpecialChars[i], "x">>) : i \in 1..Len(SpecialChars)}
  \cup NonStrings

TitleInputs ==
  {Str(Rep("a", n)) : n \in {0, 1, 99, 100, 101, 150}}
  \cup {Str(Rep("&", n)) : n \in {19, 20, 21, 101}}
  \cup {Str(<<"a">> \o Rep("&", 20)), Str(Rep("a", 99) \o <<"<">>),
        Str(<<"<", "b", ">">> \o Rep("a", 101) \o <<"<", "/", "b", ">">>),
        Str(<<"<">> \o Rep("a", 100) \o <<">">>),
        Str(Rep("a", 60) \o <<"<">> \o Rep("b", 60) \o <<">">>),
        Str(<<"<">> \o Rep("a", 120)),
        Str(Rep("=", 101)),
        Str(UnknownProduct)}
  \cup NonStrings

PriceInputs ==
  {Milli(m) : m \in 995..1050}
  \cup {Milli(m) : m \in {-1000, -1, 0, 4, 5, 15, 125, 144, 145, 146, 19990,
                          19994, 19995, 19996, 999999994, 999999995,
                          1000000000, 1000000001, 1000001000}}
  \cup {NaN, Huge, Undefined, Null, Bool(TRUE), Str(<<"2", "0">>),
        Str(<<" ", "7", " ">>), Str(<<"a">>), Str(<<>>)}

SizeM == Str(<<"m">>)
ManySizes ==
  <<Str(<<"x", "s">>), Str(<<"S">>), SizeM, Num(1), Str(<<"m", "l">>),
    Str(<<"L">>), Str(<<"z", "z">>), Str(<<"X", "l">>), Str(<<"x", "x", "l">>),
    SizeM, Null, SizeM, Str(<<"s">>), Str(<<"l">>), Str(<<"X", "S">>)>>

SizesInputs ==
  {Arr(<<SizeM, Str(<<"z", "z">>), Str(<<"L">>)>>), Arr(<<>>), Arr(ManySizes),
   Arr(Rep(Str(<<"x", "l">>), 10)), Arr(Rep(Str(<<"x", "l">>), 11)),
   Arr(<<Num(1), Null, Undefined, Arr(<<SizeM>>)>>),
   Arr(<<Str(<<"M", " ">>), Str(<<>>), Str(<<"X", "X", "X", "L">>)>>)}
  \cup {Arr(SubSeq(ManySizes, 1, n)) : n \in 1..Len(ManySizes)}
  \cup {Undefined, Null, Num(3), SizeM, Bool(TRUE)}

RequiredNames ==
  {"id", "sku", "title", "price", "currencyId", "currencyFormat", "style"}
OptionalNames == {"description", "availableSizes", "installments",
                  "isFreeShipping"}

\* a product object whose properties named in `bad` fail their validators and
\* whose optional properties named in `odd` are of the wrong kind
SampleProduct(bad, odd) ==
  Product(IF "id" \in bad THEN Num(0) ELSE Num(7),
          IF "sku" \in bad THEN Str(<<"x">>) ELSE Str(<<"1", "2">>),
          IF "title" \in bad THEN Str(<<"<", "b", ">">>) ELSE Str(<<"T">>),
          IF "description" \in odd THEN Num(1) ELSE Str(<<"d">>),
          IF "price" \in bad THEN Num(-1) ELSE Milli(10900),
          IF "installments" \in odd THEN Num(0) ELSE Num(3),
          IF "currencyId" \in bad THEN Str(<<"X", "Y", "Z">>)
          ELSE Str(<<"e", "u", "r">>),
          IF "currencyFormat" \in bad THEN Str(<<" ">>) ELSE Str(Dollar),
          IF "availableSizes" \in odd THEN SizeM ELSE Arr(<<SizeM>>),
          IF "style" \in bad THEN Undefined ELSE Str(<<"s">>),
          IF "isFreeShipping" \in odd THEN Str(<<"n", "o">>) ELSE Bool(FALSE),
          Undefined)

ProductInputs ==
  {SampleProduct(bad, {}) : bad \in SUBSET RequiredNames}
  \cup {SampleProduct(bad, odd) :
          bad \in {{}, {"price"}, {"currencyId", "style"}},
          odd \in SUBSET OptionalNames}
  \cup {Product(Num(1), Num(1), title, Str(<<>>), Num(1), Num(1), Str(USD),
                Str(Dollar), Arr(<<>>), Str(<<"s">>), Bool(TRUE), Undefined) :
          title \in {Str(UnknownProduct), Str(<<>>), Undefined}}
  \cup NonStrings \cup {Str(<<"p">>)}

QuantityInputs ==
  {Num(1), Num(1000), Num(0), Num(1001), Milli(1500), Num(-1), Undefined,
   Null, Str(<<"5">>), Str(<<"x">>), NaN, Bool(TRUE)}

CartProductInputs ==
  {[SampleProduct(bad, {}) EXCEPT !.quantity = q] :
     bad \in {{}, {"id"}, {"price", "style"}}, q \in QuantityInputs}
  \cup {[SampleProduct({}, {}) EXCEPT !.quantity = Num(2), !.title = title,
                                      !.currencyFormat = format] :
          title \in {Str(<<"T">>), Str(<<"a", "&", "b">>)},
          format \in {Str(Dollar), Str(<<"&", "&">>), Str(<<"'">>)}}
  \cup {Undefined, Null, Arr(<<>>)}

NotEvaluated == [done |-> FALSE, value |-> Undefined]

Evaluation(fn, input) == [fn |-> fn, input |-> input]

SecurityIdle ==
  /\ checked = Evaluation("none", Undefined)
  /\ verdict = NotEvaluated

SecurityInit ==
  /\ checked \in
       {Evaluation("sanitizeHtml", i) : i \in HtmlInputs}
       \cup {Evaluation("sanitizeProductTitle", i) : i \in TitleInputs}
       \cup {Evaluation("validateProductPrice", i) : i \in PriceInputs}
       \cup {Evaluation("validateAvailableSizes", i) : i \in SizesInputs}
       \cup {Evaluation("validateProduct", i) : i \in ProductInputs}
       \cup {Evaluation("validateCartProduct", i) : i \in CartProductInputs}
  /\ verdict = NotEvaluated

\* the value the function named fn returns for input
returnOf(fn, input) ==
  CASE fn = "sanitizeHtml" -> sanitizeHtml(input)
    [] fn = "sanitizeProductTitle" -> sanitizeProductTitle(input)
    [] fn = "validateProductPrice" -> validateProductPrice(input)
    [] fn = "validateAvailableSizes" -> validateAvailableSizes(input)
    [] fn = "validateProduct" -> validateProduct(input)
    [] fn = "validateCartProduct" -> validateCartProduct(input)

\* the function is called and returns
Evaluate ==
  /\ ~verdict.done
  /\ verdict' = [done |-> TRUE, value |-> returnOf(checked.fn, checked.input)]
  /\ UNCHANGED checked

\* the sanitized product of a valid cart product is validated again, as
\* the cart does with the lines it stores
ValidatedAgain == "validateCartProduct(sanitizedProduct)"

Revalidate ==
  /\ verdict.done
  /\ checked.fn = "validateCartProduct"
  /\ verdict.value.isValid
  /\ checked' = Evaluation(ValidatedAgain, verdict.value.sanitizedProduct)
  /\ verdict' = [done |-> TRUE,
                 value |-> validateCartProduct(verdict.value.sanitizedProduct)]

SecurityNext == Evaluate \/ Revalidate

----------------------------------------------------------------------------
(* contexts/cart-context/useCartProducts *)

MaxCartLines == 100

\* a === b for two values of the model
StrictEquals(a, b) == a = b /\ ~(a.t = "number" /\ a.c = "nan")

\* a.quantity + n, for a numeric quantity and an integer n
PlusInt(q, n) == Milli(q.m + n * 1000)
PlusNum(q, r) == Milli(q.m + r.m)

\* mutant: the capacity test lets one line too many in
cartIsFull_OffByOne(lines) == Len(lines) > MaxCartLines

\* products.length >= 100
cartIsFull(lines) == Len(lines) >= MaxCartLines

\* the least index of `hits`; 0 stands for the -1 of findIndex
firstIndex(hits) ==
  IF hits = {} THEN 0 ELSE CHOOSE i \in hits : \A j \in hits : i <= j

\* products.findIndex(...) of addProduct
findExistingIndex(lines, sanitizedProduct) ==
  firstIndex({i \in 1..Len(lines) :
                /\ validateCartProduct(lines[i]).isValid
                /\ StrictEquals(sanitizedProduct.id, lines[i].id)})

\* mutant: the merge does not test the quantity limit
mergeQuantity_NoLimit(lines, existingProductIndex, sanitizedProduct) ==
  [index \in 1..Len(lines) |->
     LET product == lines[index] IN
     IF ~validateCartProduct(product).isValid THEN product
     ELSE IF index = existingProductIndex
          THEN [product EXCEPT !.quantity = PlusNum(product.quantity,
                                                    sanitizedProduct.quantity)]
          ELSE product]

\* the products.map(...) of addProduct, for a line found at existingProductIndex
mergeQuantity(lines, existingProductIndex, sanitizedProduct) ==
  [index \in 1..Len(lines) |->
     LET product == lines[index] IN
     IF ~validateCartProduct(product).isValid THEN product
     ELSE IF index = existingProductIndex
          THEN LET newQuantity == PlusNum(product.quantity,
                                          sanitizedProduct.quantity)
               IN IF Gt(newQuantity, MaxQuantity) THEN product
                  ELSE [product EXCEPT !.quantity = newQuantity]
          ELSE product]

\* mutant: the lower limit is tested with < instead of <=
updateQuantitySafely_ZeroAllowed(currentProduct, targetProduct, quantity) ==
  IF ~validateCartProduct(currentProduct).isValid
     \/ ~validateCartProduct(targetProduct).isValid
  THEN currentProduct
  ELSE IF StrictEquals(currentProduct.id, targetProduct.id)
       THEN LET newQuantity == PlusInt(currentProduct.quantity, quantity) IN
            IF (newQuantity.m < 0) \/ Gt(newQuantity, MaxQuantity)
            THEN currentProduct
            ELSE [currentProduct EXCEPT !.quantity = newQuantity]
       ELSE currentProduct

updateQuantitySafely(currentProduct, targetProduct, quantity) ==
  IF ~validateCartProduct(currentProduct).isValid
     \/ ~validateCartProduct(targetProduct).isValid
  THEN currentProduct
  ELSE IF StrictEquals(currentProduct.id, targetProduct.id)
       THEN LET newQuantity == PlusInt(currentProduct.quantity, quantity) IN
            IF Leq(newQuantity, 0) \/ Gt(newQuantity, MaxQuantity)
            THEN currentProduct
            ELSE [currentProduct EXCEPT !.quantity = newQuantity]
       ELSE currentProduct

\* mutant: stored lines that fail validation are kept
removeLines_KeepsInvalid(lines, sanitizedProduct) ==
  LET keep(product) == \/ ~validateCartProduct(product).isValid
                       \/ ~StrictEquals(product.id, sanitizedProduct.id)
  IN SelectSeq(lines, keep)

\* products.filter(...) of removeProduct
removeLines(lines, sanitizedProduct) ==
  LET keep(product) == /\ validateCartProduct(product).isValid
                       /\ ~StrictEquals(product.id, sanitizedProduct.id)
  IN SelectSeq(lines, keep)

\* the two products.map(...) of increase/decreaseProductQuantity
changeQuantities(lines, sanitizedProduct, delta) ==
  [i \in 1..Len(lines) |->
     IF ~validateCartProduct(lines[i]).isValid THEN lines[i]
     ELSE updateQuantitySafely(lines[i], sanitizedProduct, delta)]

\* the line getSanitizedProducts shows for a line that fails validation
InvalidProductTitle ==
  <<"I", "n", "v", "a", "l", "i", "d", " ", "P", "r", "o", "d", "u", "c", "t">>

InvalidPlaceholder ==
  Product(Num(0), Num(0), Str(InvalidProductTitle), Str(<<>>), Num(0), Num(0),
          Str(USD), Str(Dollar), Arr(<<>>), Str(UnknownStyle), Bool(FALSE),
          Num(0))

\* validation.isValid ? validation.sanitizedProduct : {id: 0, ...}
sanitizedOrPlaceholder(validation) ==
  IF validation.isValid THEN validation.sanitizedProduct ELSE InvalidPlaceholder

\* mutant: lines that fail validation are left out
getSanitizedProducts_DropsInvalid(lines) ==
  LET valid(product) == validateCartProduct(product).isValid
      kept == SelectSeq(lines, valid)
  IN [i \in 1..Len(kept) |-> validateCartProduct(kept[i]).sanitizedProduct]

\* products.map(product => ...) of getSanitizedProducts
getSanitizedProducts(lines) ==
  [i \in 1..Len(lines) |-> sanitizedOrPlaceholder(validateCartProduct(lines[i]))]

\* useCartTotal.updateCartTotal: a fold over the lines it is given
LineQuantity(product) == product.quantity.m \div 1000
LinePrice(product) == product.price.m * LineQuantity(product)

\* values[lo] + ... + values[hi]
RECURSIVE SumRange(_, _, _)
SumRange(values, lo, hi) ==
  IF lo > hi THEN 0
  ELSE IF lo = hi THEN values[lo]
  ELSE LET mid == (lo + hi) \div 2 IN
       SumRange(values, lo, mid) + SumRange(values, mid + 1, hi)

CartTotal(lines) ==
  LET quantities == [i \in 1..Len(lines) |-> LineQuantity(lines[i])]
      prices == [i \in 1..Len(lines) |-> LinePrice(lines[i])]
  IN [productQuantity |-> SumRange(quantities, 1, Len(lines)),
      totalPrice |-> SumRange(prices, 1, Len(lines))]

(* Inputs of the cart operations *)

MaxOps == 3

Amp == <<"&">>

\* a catalog product put in the cart with a quantity and a currency format
Item(id, quantity, currencyFormat) ==
  Product(Num(id), Num(id), Str(<<"T">>), Str(<<>>), Num(1), Num(3),
          Str(USD), Str(currencyFormat), Arr(<<Str(<<"M">>)>>),
          Str(<<"s">>), Bool(FALSE), Num(quantity))

ValidInputs ==
  {Item(1, 1, Dollar), Item(1, 999, Dollar), Item(1, 1000, Dollar),
   Item(1, 1, Amp \o Amp),
   Item(MaxCartLines, 1, Dollar), Item(MaxCartLines, 999, Dollar),
   Item(MaxCartLines + 1, 1, Dollar)}

InvalidInputs ==
  {Undefined,
   Item(0, 1, Dollar),
   Item(1, 0, Dollar),
   Item(1, MaxQuantity + 1, Dollar)}

CartInputs == ValidInputs \cup InvalidInputs

MaxFullOps == 2

FullCartInputs ==
  {Item(1, 1, Dollar), Item(2, MaxQuantity, Dollar),
   Item(MaxCartLines, 1, Dollar), Item(MaxCartLines + 1, 1, Dollar),
   Item(1, 0, Dollar)}

\* the cart after addProduct(Item(1, 1, "$")), ..., addProduct(Item(n, 1, "$"))
Filled(n) == [i \in 1..n |-> validateCartProduct(Item(i, 1, Dollar)).sanitizedProduct]

\* history of the last operation: its name and argument, the collection it
\* read (before), the stored collection and total when it was invoked, how it
\* ended and whether it called setProducts and updateCartTotal
OpRecord(op, arg, outcome, wrote) ==
  [op |-> op, arg |-> arg, before |-> snapshot, productsBefore |-> products,
   totalBefore |-> total, outcome |-> outcome, wrote |-> wrote]

NoOp == [op |-> "none", arg |-> Undefined, before |-> <<>>,
         productsBefore |-> <<>>, totalBefore |-> CartTotal(<<>>),
         outcome |-> "none", wrote |-> FALSE]

\* the cart holds the lines `lines` and the hook has been evaluated
CartAt(lines) ==
  /\ products = lines
  /\ snapshot = products
  /\ total = CartTotal(products)
  /\ cartOp = NoOp
  /\ opCount = 0

\* `products: getSanitizedProducts()` of the value the hook returned when it
\* was last evaluated
exposedProducts == getSanitizedProducts(snapshot)

\* the hook is evaluated again and captures the current collection
Render ==
  /\ snapshot # products
  /\ snapshot' = products
  /\ UNCHANGED <<products, total, cartOp, opCount>>

\* mutant: the total is computed from the collection the operation read
Write_TotalOfOldLines(op, arg, updatedProducts) ==
  /\ products' = updatedProducts
  /\ total' = CartTotal(snapshot)
  /\ cartOp' = OpRecord(op, arg, "returned", TRUE)

\* setProducts(updatedProducts); updateCartTotal(updatedProducts)
Write(op, arg, updatedProducts) ==
  /\ products' = updatedProducts
  /\ total' = CartTotal(updatedProducts)
  /\ cartOp' = OpRecord(op, arg, "returned", TRUE)

\* the operation ends (by return or by throw) before any state write
NoWrite(op, arg, outcome) ==
  /\ UNCHANGED <<products, total>>
  /\ cartOp' = OpRecord(op, arg, outcome, FALSE)

\* addProduct from the findIndex on: merge into the line found, or append
addSanitized(newProduct, sanitizedProduct, existingProductIndex) ==
  IF existingProductIndex # 0
  THEN Write("addProduct", newProduct,
             mergeQuantity(snapshot, existingProductIndex, sanitizedProduct))
  ELSE IF cartIsFull(snapshot)
       THEN NoWrite("addProduct", newProduct, "threw")
       ELSE Write("addProduct", newProduct, Append(snapshot, sanitizedProduct))

\* addProduct once its input has been validated
addValidated(newProduct, validation) ==
  IF ~validation.isValid THEN NoWrite("addProduct", newProduct, "threw")
  ELSE addSanitized(newProduct, validation.sanitizedProduct,
                    findExistingIndex(snapshot, validation.sanitizedProduct))

addProduct(newProduct) ==
  /\ opCount < MaxOps
  /\ opCount' = opCount + 1
  /\ UNCHANGED snapshot
  /\ addValidated(newProduct, validateCartProduct(newProduct))

\* mutant: the lines are taken from the stored collection, not from the
\* collection the hook was evaluated on
removeValidated_ReadsStored(productToRemove, validation) ==
  IF ~validation.isValid
  THEN NoWrite("removeProduct", productToRemove, "returned")
  ELSE Write("removeProduct", productToRemove,
             removeLines(products, validation.sanitizedProduct))

\* removeProduct once its input has been validated
removeValidated(productToRemove, validation) ==
  IF ~validation.isValid
  THEN NoWrite("removeProduct", productToRemove, "returned")
  ELSE Write("removeProduct", productToRemove,
             removeLines(snapshot, validation.sanitizedProduct))

\* mutant: the input is checked with validateProduct, which ignores quantity
removeProduct_ProductOnly(productToRemove) ==
  /\ opCount < MaxOps
  /\ opCount' = opCount + 1
  /\ UNCHANGED snapshot
  /\ removeValidated(productToRemove, validateProduct(productToRemove))

removeProduct(productToRemove) ==
  /\ opCount < MaxOps
  /\ opCount' = opCount + 1
  /\ UNCHANGED snapshot
  /\ removeValidated(productToRemove, validateCartProduct(productToRemove))

\* increaseProductQuantity once its input has been validated
increaseValidated(productToIncrease, validation) ==
  IF ~validation.isValid
  THEN NoWrite("increaseProductQuantity", productToIncrease, "returned")
  ELSE Write("increaseProductQuantity", productToIncrease,
             changeQuantities(snapshot, validation.sanitizedProduct, 1))

increaseProductQuantity(productToIncrease) ==
  /\ opCount < MaxOps
  /\ opCount' = opCount + 1
  /\ UNCHANGED snapshot
  /\ increaseValidated(productToIncrease,
                       validateCartProduct(productToIncrease))

\* decreaseProductQuantity once its input has been validated
decreaseValidated(productToDecrease, validation) ==
  IF ~validation.isValid
  THEN NoWrite("decreaseProductQuantity", productToDecrease, "returned")
  ELSE Write("decreaseProductQuantity", productToDecrease,
             changeQuantities(snapshot, validation.sanitizedProduct, -1))

decreaseProductQuantity(productToDecrease) ==
  /\ opCount < MaxOps
  /\ opCount' = opCount + 1
  /\ UNCHANGED snapshot
  /\ decreaseValidated(productToDecrease,
                       validateCartProduct(productToDecrease))

CartNext(Inputs) ==
  \/ \E p \in Inputs : addProduct(p)
  \/ \E p \in Inputs : removeProduct(p)
  \/ \E p \in Inputs : increaseProductQuantity(p)
  \/ \E p \in Inputs : decreaseProductQuantity(p)
  \/ Render

----------------------------------------------------------------------------
(* utils/error-handling: error taxonomy and classification *)

\* status 0 stands for an undefined status
APIError(message, status, code, isRetryable, retryCnt) ==
  [name |-> "APIError", message |-> message, status |-> status, code |-> code,
   isRetryable |-> isRetryable, retryCount |-> retryCnt]

NetworkError(message) ==
  [APIError(message, 0, "NETWORK_ERROR", TRUE, 0) EXCEPT !.name = "NetworkError"]

\* mutant: the constructor passes isRetryable = true
ValidationError_Retryable(message) ==
  [APIError(message, 400, "VALIDATION_ERROR", TRUE, 0)
     EXCEPT !.name = "ValidationError"]

ValidationError(message) ==
  [APIError(message, 400, "VALIDATION_ERROR", FALSE, 0)
     EXCEPT !.name = "ValidationError"]

ServerError(message, status) ==
  [APIError(message, status, "SERVER_ERROR", TRUE, 0)
     EXCEPT !.name = "ServerError"]

ERROR_MESSAGES ==
  [NETWORK_ERROR |->
     "Unable to connect to the server. Please check your internet connection.",
   TIMEOUT_ERROR |-> "Request timed out. Please try again.",
   SERVER_ERROR |->
     "Server is temporarily unavailable. Please try again later.",
   VALIDATION_ERROR |-> "Invalid data received. Please refresh the page.",
   UNAUTHORIZED |-> "You are not authorized to perform this action.",
   NOT_FOUND |-> "The requested resource was not found.",
   RATE_LIMIT |->
     "Too many requests. Please wait a moment before trying again.",
   UNKNOWN_ERROR |-> "An unexpected error occurred. Please try again."]

\* an AxiosError: code, message and, when a response came back, its status
\* and the message property of its body ("" when the body has none)
AxiosError(code, message, hasResponse, status, dataMessage) ==
  [code |-> code, message |-> message, hasResponse |-> hasResponse,
   status |-> status, dataMessage |-> dataMessage]

TimeoutMessage == "timeout of 10000ms exceeded"
\* message.includes('timeout')
IncludesTimeout(message) == message = TimeoutMessage

getErrorMessage(status, dataMessage) ==
  IF dataMessage # "" THEN dataMessage
  ELSE CASE status = 400 -> ERROR_MESSAGES.VALIDATION_ERROR
         [] status = 401 -> ERROR_MESSAGES.UNAUTHORIZED
         [] status = 403 -> ERROR_MESSAGES.UNAUTHORIZED
         [] status = 404 -> ERROR_MESSAGES.NOT_FOUND
         [] status = 429 -> ERROR_MESSAGES.RATE_LIMIT
         [] status \in {500, 502, 503, 504} -> ERROR_MESSAGES.SERVER_ERROR
         [] OTHER -> ERROR_MESSAGES.UNKNOWN_ERROR

parseAxiosError(error) ==
  IF error.code = "ECONNABORTED" \/ IncludesTimeout(error.message)
  THEN NetworkError(ERROR_MESSAGES.TIMEOUT_ERROR)
  ELSE IF error.code = "ERR_NETWORK" \/ ~error.hasResponse
  THEN NetworkError(ERROR_MESSAGES.NETWORK_ERROR)
  ELSE
    LET status == error.status
        message == getErrorMessage(status, error.dataMessage)
    IN CASE status = 400 -> ValidationError(message)
         [] status = 401 -> APIError(message, status, "UNAUTHORIZED", FALSE, 0)
         [] status = 403 -> APIError(message, status, "FORBIDDEN", FALSE, 0)
         [] status = 404 -> APIError(message, status, "NOT_FOUND", FALSE, 0)
         [] status = 429 -> APIError(message, status, "RATE_LIMIT", TRUE, 0)
         [] status \in {500, 502, 503, 504} -> ServerError(message, status)
         [] OTHER -> APIError(message, status, "UNKNOWN_ERROR", TRUE, 0)

(* Inputs of parseAxiosError: the failures axios reports.  A response with *)
(* a status outside 2xx is rejected with "Request failed with status code  *)
(* <status>"; without a response the failure is a timeout or a network     *)
(* error.                                                                   *)
MinStatus == 300
MaxStatus == 599
FailureStatuses == MinStatus..MaxStatus
BodyMessages == {"", "quota exceeded"}

ResponseFailures ==
  {AxiosError(IF st >= 500 THEN "ERR_BAD_RESPONSE" ELSE "ERR_BAD_REQUEST",
              "Request failed with status code", TRUE, st, dm) :
     st \in FailureStatuses, dm \in BodyMessages}

TransportFailures ==
  {AxiosError("ECONNABORTED", TimeoutMessage, FALSE, 0, ""),
   AxiosError("ERR_NETWORK", "Network Error", FALSE, 0, ""),
   AxiosError("ERR_CANCELED", "canceled", FALSE, 0, "")}

AxiosErrors == ResponseFailures \cup TransportFailures

NoError == APIError("", 0, "NONE", FALSE, 0)

ClassifyInit ==
  /\ axiosError \in AxiosErrors
  /\ apiError = NoError

Classify ==
  /\ apiError = NoError
  /\ apiError' = parseAxiosError(axiosError)
  /\ UNCHANGED axiosError

ClassifyNext == Classify

----------------------------------------------------------------------------
(* utils/error-handling: ErrorHandler.retryWithBackoff *)

DEFAULT_RETRY_CONFIG ==
  [maxRetries |-> 3, retryDelay |-> 1000, backoffMultiplier |-> 2,
   maxRetryDelay |-> 10000]

PRODUCTS_RETRY_CONFIG ==
  [maxRetries |-> 3, retryDelay |-> 1000, backoffMultiplier |-> 2,
   maxRetryDelay |-> 8000]

\* a RetryConfig whose cap is reached within its retries
CAPPED_RETRY_CONFIG ==
  [maxRetries |-> 4, retryDelay |-> 1000, backoffMultiplier |-> 3,
   maxRetryDelay |-> 8000]

\* the configuration of the errorHandler instance the catalog service uses
CatalogRetryConfig == DEFAULT_RETRY_CONFIG

RetryConfigs == {DEFAULT_RETRY_CONFIG, PRODUCTS_RETRY_CONFIG, CAPPED_RETRY_CONFIG}

\* what a failing operation throws: an AxiosError, or an APIError
\* (the operation classified the failure itself or found the data invalid)
Thrown(isAPIError, error) == [isAPIError |-> isAPIError, error |-> error]

RetryStatuses == {400, 401, 403, 404, 418, 429, 500, 501, 503}

ThrownErrors ==
  {Thrown(FALSE, e) : e \in TransportFailures}
  \cup {Thrown(FALSE, e) :
          e \in {r \in ResponseFailures :
                   r.status \in RetryStatuses /\ r.dataMessage = ""}}
  \cup {Thrown(TRUE, ValidationError("Empty response received")),
        Thrown(TRUE, parseAxiosError(
                       AxiosError("ERR_BAD_RESPONSE",
                                  "Request failed with status code",
                                  TRUE, 503, "")))}

\* const apiError = error instanceof APIError ? error : parseAxiosError(error)
classifyThrown(thrown) ==
  IF thrown.isAPIError THEN thrown.error ELSE parseAxiosError(thrown.error)

\* mutant: the retry limit is tested with > instead of >=
shouldPropagate_OneMore(error, count, config) ==
  ~error.isRetryable \/ count > config.maxRetries

\* mutant: the retryable flag is not consulted
shouldPropagate_AnyError(error, count, config) == count >= config.maxRetries

\* if (!apiError.isRetryable || retryCount >= maxRetries) throw apiError
shouldPropagate(error, count, config) ==
  ~error.isRetryable \/ count >= config.maxRetries

\* mutant: the delay is not capped
backoffDelay_NoCap(count, config) ==
  config.retryDelay * Pow(config.backoffMultiplier, count)

\* Math.min(retryDelay * Math.pow(backoffMultiplier, retryCount), maxRetryDelay)
backoffDelay(count, config) ==
  Min(config.retryDelay * Pow(config.backoffMultiplier, count),
      config.maxRetryDelay)

NoResult == [kind |-> "none", error |-> NoError]

RetryInit ==
  /\ retryConfig \in RetryConfigs
  /\ pc = "call"
  /\ retryCount = 0
  /\ calls = 0
  /\ waits = <<>>
  /\ lastError = NoError
  /\ allRetryable = TRUE
  /\ retryResult = NoResult

\* await operation(): the operation is invoked
Invoke ==
  /\ pc = "call"
  /\ pc' = "await"
  /\ calls' = calls + 1
  /\ UNCHANGED <<retryConfig, retryCount, waits, lastError, allRetryable,
                 retryResult>>

\* mutant: after the operation resolved it is invoked once more
OperationSucceeds_CallsAgain ==
  /\ pc = "await"
  /\ pc' = "call"
  /\ retryResult' = [kind |-> "value", error |-> NoError]
  /\ UNCHANGED <<retryConfig, retryCount, calls, waits, lastError,
                 allRetryable>>

\* the operation resolves: its value is returned
OperationSucceeds ==
  /\ pc = "await"
  /\ pc' = "done"
  /\ retryResult' = [kind |-> "value", error |-> NoError]
  /\ UNCHANGED <<retryConfig, retryCount, calls, waits, lastError,
                 allRetryable>>

\* the operation rejects: the catch block, up to the throw or the setTimeout
OperationFails(thrown) ==
  /\ pc = "await"
  /\ LET error == classifyThrown(thrown) IN
     /\ lastError' = error
     /\ allRetryable' = (allRetryable /\ error.isRetryable)
     /\ IF shouldPropagate(error, retryCount, retryConfig)
        THEN /\ pc' = "done"
             /\ retryResult' = [kind |-> "error", error |-> error]
             /\ UNCHANGED waits
        ELSE /\ pc' = "wait"
             /\ waits' = Append(waits, backoffDelay(retryCount, retryConfig))
             /\ UNCHANGED retryResult
  /\ UNCHANGED <<retryConfig, retryCount, calls>>

\* the timer fires: return this.retryWithBackoff(operation, retryCount + 1)
BackoffElapsed ==
  /\ pc = "wait"
  /\ pc' = "call"
  /\ retryCount' = retryCount + 1
  /\ UNCHANGED <<retryConfig, calls, waits, lastError, allRetryable,
                 retryResult>>

RetryNext ==
  \/ Invoke
  \/ OperationSucceeds
  \/ \E thrown \in ThrownErrors : OperationFails(thrown)
  \/ BackoffElapsed

----------------------------------------------------------------------------
(* services/products: the response of the catalog endpoint and getProducts *)

\* what an evaluation yields: a value, or a thrown error
Returned(value) == [ok |-> TRUE, value |-> value, thrown |-> Thrown(TRUE, NoError)]
Threw(thrown) == [ok |-> FALSE, value |-> <<>>, thrown |-> thrown]

\* a product of the payload is a record of the fields it has; a JSON null
\* entry is Null
RequiredFields == {"id", "sku", "title", "price", "availableSizes"}

Shirt(id, sizes) ==
  [id |-> id, sku |-> id, title |-> "T", price |-> 10, availableSizes |-> sizes]

\* product without the property `field`
Without(product, field) ==
  [f \in (DOMAIN product) \ {field} |-> product[f]]

\* a product whose availableSizes is null: the property is present, so the
\* test `field in product` passes, and it holds no array.  The record marks
\* it with the extra field sizesNull and its availableSizes is never read
NullSizesShirt(id) ==
  [id |-> id, sku |-> id, title |-> "T", price |-> 10, availableSizes |-> <<>>,
   sizesNull |-> TRUE]

hasNullSizes(product) == "sizesNull" \in DOMAIN product

CatalogA == <<Shirt(1, <<"S", "M">>), Shirt(2, <<"L">>), Shirt(3, <<"M">>)>>
CatalogNullSizes == <<Shirt(2, <<"L">>), NullSizesShirt(5)>>
CatalogB == <<Shirt(4, <<"S">>), Shirt(2, <<"L">>)>>
Catalogs == {CatalogA, CatalogB, <<>>}

\* response.data: kind "empty" is an empty body; an object body has or lacks
\* the property data, which has or lacks the property products
EmptyBody == [kind |-> "empty", hasData |-> FALSE, hasProducts |-> FALSE,
              products |-> <<>>]
ObjectBody(hasData, hasProducts, entries) ==
  [kind |-> "object", hasData |-> hasData, hasProducts |-> hasProducts,
   products |-> entries]

IncompletePayloads ==
  {ObjectBody(TRUE, TRUE, <<Shirt(1, <<"S">>), Without(Shirt(2, <<"L">>), f)>>) :
     f \in RequiredFields}

NullEntryPayload ==
  ObjectBody(TRUE, TRUE, <<Null, Without(Shirt(2, <<"L">>), "id")>>)

Bodies ==
  {ObjectBody(TRUE, TRUE, c) : c \in Catalogs}
  \cup IncompletePayloads
  \cup {NullEntryPayload, EmptyBody, ObjectBody(FALSE, FALSE, <<>>),
        ObjectBody(TRUE, FALSE, <<>>), ObjectBody(TRUE, TRUE, CatalogNullSizes)}

\* the outcome of apiClient.get: a response with a body, or an AxiosError
HttpOk(body) == [ok |-> TRUE, body |-> body, error |-> NoError]
\* no body: the request failed, or no response has arrived yet
NoBody == [kind |-> "none", hasData |-> FALSE, hasProducts |-> FALSE,
           products |-> <<>>]
HttpFailed(error) == [ok |-> FALSE, body |-> NoBody, error |-> error]

CatalogFailures ==
  {e \in TransportFailures : e.code # "ERR_CANCELED"}
  \cup {r \in ResponseFailures :
          r.status \in {404, 501, 503} /\ r.dataMessage = ""}

HttpOutcomes ==
  {HttpOk(b) : b \in Bodies} \cup {HttpFailed(e) : e \in CatalogFailures}

\* the TypeError of `field in product` for a product that is no object
InOperatorTypeError ==
  AxiosError("", "Cannot use 'in' operator to search for 'id' in null",
             FALSE, 0, "")

\* ErrorHandler.validateResponse(response, ['data'])
validateResponse(body) ==
  IF body.kind = "empty"
  THEN Threw(Thrown(TRUE, ValidationError("Empty response received")))
  ELSE IF ~body.hasData
  THEN Threw(Thrown(TRUE, ValidationError("Missing required fields: data")))
  ELSE Returned(body)

\* requiredFields.some(field => !(field in product))
missesRequiredField(product) ==
  \E field \in RequiredFields : field \notin DOMAIN product

\* the checks of the retried operation on validatedData
checkProducts(validatedData) ==
  IF ~validatedData.hasProducts
  THEN Threw(Thrown(TRUE, ValidationError(
                            "Invalid products data structure received")))
  ELSE IF \E i \in 1..Len(validatedData.products) :
            validatedData.products[i] = Null
  THEN Threw(Thrown(FALSE, InOperatorTypeError))
  ELSE IF SelectSeq(validatedData.products, missesRequiredField) # <<>>
  THEN Threw(Thrown(TRUE, ValidationError(
                            "Invalid product data: products missing required fields")))
  ELSE Returned(validatedData.products)

checkValidated(validated) ==
  IF validated.ok THEN checkProducts(validated.value) ELSE validated

\* the operation handed to retryWithBackoff, for one outcome of the request;
\* the response interceptor rejects a failed request with parseAxiosError
fetchOperation(http) ==
  IF http.ok THEN checkValidated(validateResponse(http.body))
  ELSE Threw(Thrown(TRUE, parseAxiosError(http.error)))

\* the catch block of getProducts
UnexpectedError ==
  APIError("An unexpected error occurred while fetching products", 500,
           "UNEXPECTED_ERROR", TRUE, 0)

catchGetProducts(thrown) ==
  IF thrown.isAPIError THEN thrown ELSE Thrown(TRUE, UnexpectedError)

\* the development branch of getProducts: the local fixture, or a failure
\* to load it
LocalOutcomes ==
  {Returned(c) : c \in Catalogs}
  \cup {Threw(Thrown(TRUE, ValidationError(
                             "Failed to load local products data")))}

----------------------------------------------------------------------------
(* contexts/products-context/useProducts: the catalog state controller *)

\* the value null of the state `error`
NullError == [message |-> "", type |-> "null", isRetryable |-> FALSE,
              retryCount |-> 0]

ErrorState(message, type, isRetryable, retryCnt) ==
  [message |-> message, type |-> type, isRetryable |-> isRetryable,
   retryCount |-> retryCnt]

\* mutant: the generic branch is chosen by the name of the error, so a
\* ServerError falls through to the branch for unclassified errors
handleError_ByName(thrown) ==
  IF thrown.isAPIError /\ thrown.error.name = "NetworkError"
  THEN [branch |-> "network",
        state |-> ErrorState(ERROR_MESSAGES.NETWORK_ERROR, "network", TRUE,
                             thrown.error.retryCount)]
  ELSE IF thrown.isAPIError /\ thrown.error.name = "ValidationError"
  THEN [branch |-> "validation",
        state |-> ErrorState(ERROR_MESSAGES.VALIDATION_ERROR, "validation",
                             FALSE, 0)]
  ELSE IF thrown.isAPIError /\ thrown.error.name = "APIError"
  THEN [branch |-> "api",
        state |-> ErrorState(thrown.error.message,
                             IF thrown.error.status >= 500
                             THEN "server" ELSE "unknown",
                             thrown.error.isRetryable,
                             thrown.error.retryCount)]
  ELSE [branch |-> "unclassified",
        state |-> ErrorState(ERROR_MESSAGES.UNKNOWN_ERROR, "unknown", TRUE, 0)]

\* mutant: every error of the generic branch is stored as retryable
handleError_GenericRetryable(thrown) ==
  IF thrown.isAPIError /\ thrown.error.name = "NetworkError"
  THEN [branch |-> "network",
        state |-> ErrorState(ERROR_MESSAGES.NETWORK_ERROR, "network", TRUE,
                             thrown.error.retryCount)]
  ELSE IF thrown.isAPIError /\ thrown.error.name = "ValidationError"
  THEN [branch |-> "validation",
        state |-> ErrorState(ERROR_MESSAGES.VALIDATION_ERROR, "validation",
                             FALSE, 0)]
  ELSE IF thrown.isAPIError
  THEN [branch |-> "api",
        state |-> ErrorState(thrown.error.message,
                             IF thrown.error.status >= 500
                             THEN "server" ELSE "unknown",
                             TRUE,
                             thrown.error.retryCount)]
  ELSE [branch |-> "unclassified",
        state |-> ErrorState(ERROR_MESSAGES.UNKNOWN_ERROR, "unknown", TRUE, 0)]

\* handleError: the ErrorState it stores and the branch that built it
handleError(thrown) ==
  IF thrown.isAPIError /\ thrown.error.name = "NetworkError"
  THEN [branch |-> "network",
        state |-> ErrorState(ERROR_MESSAGES.NETWORK_ERROR, "network", TRUE,
                             thrown.error.retryCount)]
  ELSE IF thrown.isAPIError /\ thrown.error.name = "ValidationError"
  THEN [branch |-> "validation",
        state |-> ErrorState(ERROR_MESSAGES.VALIDATION_ERROR, "validation",
                             FALSE, 0)]
  ELSE IF thrown.isAPIError
  THEN [branch |-> "api",
        state |-> ErrorState(thrown.error.message,
                             IF thrown.error.status >= 500
                             THEN "server" ELSE "unknown",
                             thrown.error.isRetryable,
                             thrown.error.retryCount)]
  ELSE [branch |-> "unclassified",
        state |-> ErrorState(ERROR_MESSAGES.UNKNOWN_ERROR, "unknown", TRUE, 0)]

\* mutant: only the first entry of the selection is looked up
filterSet_FirstOnly(newFilters) == {newFilters[1]}

\* new Set(newFilters)
filterSet(newFilters) == {newFilters[i] : i \in 1..Len(newFilters)}

\* product.availableSizes.some(size => filterSet.has(size))
hasSizeIn(product, sizes) ==
  \E i \in 1..Len(product.availableSizes) : product.availableSizes[i] \in sizes

\* the TypeError of product.availableSizes.some for availableSizes = null
SomeTypeError ==
  AxiosError("", "Cannot read properties of null (reading 'some')",
             FALSE, 0, "")

\* products.filter(...) throws: the selection is not empty and the callback
\* reaches a product whose availableSizes is null
filterThrows(list, newFilters) ==
  Len(newFilters) > 0 /\ \E i \in 1..Len(list) : hasNullSizes(list[i])

\* the list without its first element, if it has one
dropFirst(list) == IF list = <<>> THEN list ELSE Tail(list)

\* mutant: the filtered list loses its first product
filterBySizes_DropsFirst(list, newFilters) ==
  IF Len(newFilters) > 0
  THEN LET keep(product) == hasSizeIn(product, filterSet(newFilters))
       IN dropFirst(SelectSeq(list, keep))
  ELSE list

\* the filtering of filterProducts and of the memo filteredProducts
filterBySizes(list, newFilters) ==
  IF Len(newFilters) > 0
  THEN LET keep(product) == hasSizeIn(product, filterSet(newFilters))
       IN SelectSeq(list, keep)
  ELSE list

\* the memo filteredProducts, returned by the hook as `products`; when its
\* callback throws the render fails and no list is exposed
filteredProducts ==
  IF filterThrows(catalogProducts, filters) THEN <<>>
  ELSE filterBySizes(catalogProducts, filters)

\* the memo isLoading
isLoading == isFetching \/ isRetrying

(* components/ErrorDisplay, rendered by App with onRetry = retryFetch and  *)
(* onClear = clearError                                                    *)

\* if (!error) return null
errorDisplayed == errorState # NullError

\* error.isRetryable && onRetry
retryOffered == errorDisplayed /\ errorState.isRetryable

\* onClear
dismissOffered == errorDisplayed

\* error.retryCount > 0 && ` (attempt ${error.retryCount})`
attemptShown == errorDisplayed /\ errorState.retryCount > 0

(* History of the catalog operations *)

\* a call of an operation: whether it called the catalog service, and the
\* stored error and the success flag when it was called
CallRecord(op, seq, newFilters, network) ==
  [op |-> op, seq |-> seq, newFilters |-> newFilters, network |-> network,
   errorBefore |-> errorState, succeededBefore |-> catalogOp.succeeded]

NoCall == [op |-> "none", seq |-> 0, newFilters |-> <<>>, network |-> FALSE,
           errorBefore |-> NullError, succeededBefore |-> FALSE]

\* a completion: the operation, how it ended, the catalog it fetched, the
\* requests it made, the class of the error it caught, the branch of
\* handleError taken, what threw the error ("getProducts" or the "filter"
\* callback), and whether its first response held an incomplete product
NoDone == [op |-> "none", seq |-> 0, newFilters |-> <<>>, outcome |-> "none",
           value |-> <<>>, calls |-> 0, errorName |-> "none",
           branch |-> "none", thrownBy |-> "none", firstIncomplete |-> FALSE,
           apiError |-> NoError]

Summary(done) == [op |-> done.op, seq |-> done.seq, outcome |-> done.outcome,
                  value |-> done.value, newFilters |-> done.newFilters]

NoCatalogOp == [called |-> NoCall, done |-> NoDone, prev |-> Summary(NoDone),
                succeeded |-> FALSE]

(* Suspended operations *)

\* operations called in a run of the catalog service with its controller,
\* and in a run of the controller in development
MaxCatalogOps == 2
MaxLocalOps == 3

NewTask(op, newFilters, seq) ==
  [op |-> op, newFilters |-> newFilters, seq |-> seq,
   pc |-> IF isProduction THEN "request" ELSE "local",
   retryCount |-> 0, calls |-> IF isProduction THEN 1 ELSE 0,
   firstIncomplete |-> FALSE]

RemoveAt(list, i) == SubSeq(list, 1, i - 1) \o SubSeq(list, i + 1, Len(list))

FilterInputs == {<<>>, <<"L">>, <<"S", "M">>, <<"M", "S", "M">>}
ProductionFilterInputs == {<<>>, <<"L">>}

(* Operations of the controller *)

\* the controller as mounted, in production or (local = TRUE) in development
CatalogInit(local) ==
  /\ isProduction = ~local
  /\ fixture \in (IF local THEN LocalOutcomes ELSE {Returned(CatalogA)})
  /\ isFetching = FALSE
  /\ catalogProducts = <<>>
  /\ filters = <<>>
  /\ allProductsCache = <<>>
  /\ isInitialized = FALSE
  /\ errorState = NullError
  /\ isRetrying = FALSE
  /\ tasks = <<>>
  /\ catalogOps = 0
  /\ catalogOp = NoCatalogOp

\* an operation is called and suspends at `await getProducts()`
Suspend(op, newFilters) ==
  /\ catalogOps' = catalogOps + 1
  /\ errorState' = NullError
  /\ tasks' = Append(tasks, NewTask(op, newFilters, catalogOps + 1))
  /\ catalogOp' = [catalogOp EXCEPT
                     !.called = CallRecord(op, catalogOps + 1, newFilters, TRUE)]
  /\ UNCHANGED <<isProduction, fixture, catalogProducts, filters,
                 allProductsCache, isInitialized>>

DoneRecord(task, outcome, value, errorName, branch, thrownBy) ==
  [op |-> task.op, seq |-> task.seq, newFilters |-> task.newFilters,
   outcome |-> outcome, value |-> value, calls |-> task.calls,
   errorName |-> errorName, branch |-> branch, thrownBy |-> thrownBy,
   firstIncomplete |-> task.firstIncomplete, apiError |-> NoError]

\* history: the APIError the catch block was given
Caught(record, thrown) ==
  IF thrown.isAPIError THEN [record EXCEPT !.apiError = thrown.error]
  ELSE record

Completed(record, fetched) ==
  catalogOp' = [catalogOp EXCEPT !.done = record,
                                 !.prev = Summary(catalogOp.done),
                                 !.succeeded = @ \/ fetched]

\* fetchProducts: setIsFetching(true); clearError(); await getProducts()
fetchProducts ==
  /\ isFetching' = TRUE
  /\ UNCHANGED isRetrying
  /\ Suspend("fetchProducts", <<>>)

\* mutant: retryFetch does not look at the stored error
retryFetch_Unguarded ==
  /\ isRetrying' = TRUE
  /\ UNCHANGED isFetching
  /\ Suspend("retryFetch", <<>>)

\* retryFetch: returns at once unless the stored error is retryable
retryFetch ==
  IF ~errorState.isRetryable
  THEN /\ catalogOps' = catalogOps + 1
       /\ catalogOp' = [catalogOp EXCEPT
                          !.called = CallRecord("retryFetch", catalogOps + 1,
                                                <<>>, FALSE)]
       /\ UNCHANGED <<isProduction, fixture, isFetching, catalogProducts,
                      filters, allProductsCache, isInitialized, errorState,
                      isRetrying, tasks>>
  ELSE /\ isRetrying' = TRUE
       /\ UNCHANGED isFetching
       /\ Suspend("retryFetch", <<>>)

\* history: how filterProducts ends on the cached collection
filterCachedRecord(task) ==
  IF filterThrows(allProductsCache, task.newFilters)
  THEN DoneRecord(task, "failure", <<>>, "raw",
                  handleError(Thrown(FALSE, SomeTypeError)).branch, "filter")
  ELSE DoneRecord(task, "success", allProductsCache, "none", "none", "none")

\* filterProducts with the cache populated: the cached collection is
\* filtered in the microtask that follows the call
filterCached(newFilters) ==
  /\ catalogOps' = catalogOps + 1
  /\ isFetching' = FALSE
  /\ UNCHANGED <<isProduction, fixture, allProductsCache, isInitialized,
                 isRetrying, tasks>>
  /\ IF filterThrows(allProductsCache, newFilters)
     THEN /\ errorState' = handleError(Thrown(FALSE, SomeTypeError)).state
          /\ UNCHANGED <<filters, catalogProducts>>
     ELSE /\ errorState' = NullError
          /\ filters' = newFilters
          /\ catalogProducts' = filterBySizes(allProductsCache, newFilters)
  /\ catalogOp' =
       [catalogOp EXCEPT
          !.called = CallRecord("filterProducts", catalogOps + 1, newFilters,
                                FALSE),
          !.done = filterCachedRecord([op |-> "filterProducts",
                                       seq |-> catalogOps + 1,
                                       newFilters |-> newFilters, calls |-> 0,
                                       firstIncomplete |-> FALSE]),
          !.prev = Summary(catalogOp.done)]

\* filterProducts: allProductsCache.current.length > 0 selects the cache
filterProducts(newFilters) ==
  IF Len(allProductsCache) > 0
  THEN filterCached(newFilters)
  ELSE /\ isFetching' = TRUE
       /\ UNCHANGED isRetrying
       /\ Suspend("filterProducts", newFilters)

\* components/Filter: toggleCheckbox(label) computes the new selection from
\* the stored one and calls filterProducts
toggledFilters(label) ==
  IF label \in filterSet(filters)
  THEN LET other(filter) == filter # label IN SelectSeq(filters, other)
  ELSE Append(filters, label)

toggleCheckbox(label) ==
  /\ filterProducts(toggledFilters(label))
  /\ toggled' = (toggled \ {label}) \cup ({label} \ toggled)

\* clearError, the dismiss action of the error display
clearError ==
  /\ errorState # NullError
  /\ errorState' = NullError
  /\ UNCHANGED <<isProduction, fixture, isFetching, catalogProducts, filters,
                 allProductsCache, isInitialized, isRetrying, tasks,
                 catalogOps, catalogOp>>

(* Continuations: the steps that follow `await getProducts()` *)

\* filterProducts after the cache was written: the filter callback throws
\* and the catch block stores the error
filterThrew(task) ==
  /\ errorState' = handleError(Thrown(FALSE, SomeTypeError)).state
  /\ UNCHANGED <<catalogProducts, filters, isInitialized>>
  /\ Completed(DoneRecord(task, "failure", <<>>, "raw",
                          handleError(Thrown(FALSE, SomeTypeError)).branch,
                          "filter"), FALSE)

\* filterProducts after the cache was written: setFilters and setProducts
filtered(task, value) ==
  /\ filters' = task.newFilters
  /\ catalogProducts' = filterBySizes(value, task.newFilters)
  /\ UNCHANGED <<isInitialized, errorState>>
  /\ Completed(DoneRecord(task, "success", value, "none", "none", "none"),
               TRUE)

\* mutant: a result is dropped when an operation issued later has already
\* succeeded
resolveWith_KeepsNewest(task, value) ==
  IF catalogOp.done.outcome = "success" /\ catalogOp.done.seq > task.seq
  THEN /\ UNCHANGED <<allProductsCache, catalogProducts, filters,
                      isInitialized, errorState>>
       /\ Completed(DoneRecord(task, "success", value, "none", "none", "none"),
                    TRUE)
  ELSE /\ allProductsCache' = value
       /\ IF task.op = "filterProducts"
          THEN IF filterThrows(value, task.newFilters)
               THEN filterThrew(task)
               ELSE filtered(task, value)
          ELSE /\ catalogProducts' = value
               /\ isInitialized' = TRUE
               /\ UNCHANGED <<filters, errorState>>
               /\ Completed(DoneRecord(task, "success", value, "none", "none",
                                       "none"), TRUE)

\* the try block after the await
resolveWith(task, value) ==
  /\ allProductsCache' = value
  /\ IF task.op = "filterProducts"
     THEN IF filterThrows(value, task.newFilters)
          THEN filterThrew(task)
          ELSE filtered(task, value)
     ELSE /\ catalogProducts' = value
          /\ isInitialized' = TRUE
          /\ UNCHANGED <<filters, errorState>>
          /\ Completed(DoneRecord(task, "success", value, "none", "none",
                                  "none"), TRUE)

\* the class of a caught value: the name of an APIError, "raw" otherwise
thrownName(thrown) == IF thrown.isAPIError THEN thrown.error.name ELSE "raw"

\* the catch block: handleError(error, context)
rejectWith(task, thrown, handled) ==
  /\ errorState' = handled.state
  /\ UNCHANGED <<allProductsCache, catalogProducts, filters, isInitialized>>
  /\ Completed(Caught(DoneRecord(task, "failure", <<>>, thrownName(thrown),
                                 handled.branch, "getProducts"), thrown),
               FALSE)

\* mutant: the finally block of every operation clears isRetrying
clearFlag_RetryingOnly(task) ==
  isRetrying' = FALSE /\ UNCHANGED isFetching

\* the finally block
clearFlag(task) ==
  IF task.op = "retryFetch"
  THEN isRetrying' = FALSE /\ UNCHANGED isFetching
  ELSE isFetching' = FALSE /\ UNCHANGED isRetrying

\* getProducts settles and the operation tasks[i] runs to its end
settle(i, task, outcome) ==
  /\ tasks' = RemoveAt(tasks, i)
  /\ UNCHANGED <<isProduction, fixture, catalogOps>>
  /\ clearFlag(task)
  /\ IF outcome.ok
     THEN resolveWith(task, outcome.value)
     ELSE rejectWith(task, outcome.thrown, handleError(outcome.thrown))

\* mutant: the error that is propagated carries the number of retries made
failedAttempt_CountsRetries(i, task, error) ==
  IF shouldPropagate(error, task.retryCount, CatalogRetryConfig)
  THEN settle(i, task,
              Threw(catchGetProducts(
                      Thrown(TRUE, [error EXCEPT !.retryCount = task.retryCount]))))
  ELSE /\ tasks' = [tasks EXCEPT ![i] = [task EXCEPT !.pc = "backoff"]]
       /\ UNCHANGED <<isProduction, fixture, isFetching, catalogProducts,
                      filters, allProductsCache, isInitialized, errorState,
                      isRetrying, catalogOps, catalogOp>>

\* the catch block of retryWithBackoff for the classified error of an attempt
failedAttempt(i, task, error) ==
  IF shouldPropagate(error, task.retryCount, CatalogRetryConfig)
  THEN settle(i, task, Threw(catchGetProducts(Thrown(TRUE, error))))
  ELSE /\ tasks' = [tasks EXCEPT ![i] = [task EXCEPT !.pc = "backoff"]]
       /\ UNCHANGED <<isProduction, fixture, isFetching, catalogProducts,
                      filters, allProductsCache, isInitialized, errorState,
                      isRetrying, catalogOps, catalogOp>>

attempted(i, task, outcome) ==
  IF outcome.ok THEN settle(i, task, outcome)
  ELSE failedAttempt(i, task, classifyThrown(outcome.thrown))

\* the payload holds a product that lacks a required field
hasIncompleteProduct(body) ==
  /\ body.kind = "object"
  /\ body.hasData
  /\ body.hasProducts
  /\ \E k \in 1..Len(body.products) :
       body.products[k] # Null /\ missesRequiredField(body.products[k])

\* history: whether the first response of the operation held such a product
noteBody(task, body) ==
  IF task.calls = 1
  THEN [task EXCEPT !.firstIncomplete = hasIncompleteProduct(body)]
  ELSE task

\* the request of tasks[i] ends with the outcome http
Respond(i, http) ==
  /\ tasks[i].pc = "request"
  /\ attempted(i, noteBody(tasks[i], http.body), fetchOperation(http))

\* the backoff timer of tasks[i] fires and the request is issued again
BackoffOver(i) ==
  /\ tasks[i].pc = "backoff"
  /\ tasks' = [tasks EXCEPT ![i].pc = "request",
                            ![i].retryCount = @ + 1,
                            ![i].calls = @ + 1]
  /\ UNCHANGED <<isProduction, fixture, isFetching, catalogProducts, filters,
                 allProductsCache, isInitialized, errorState, isRetrying,
                 catalogOps, catalogOp>>

\* development: getProducts settles with what the local fixture yields
LocalLoad(i) ==
  /\ tasks[i].pc = "local"
  /\ settle(i, tasks[i],
            IF fixture.ok THEN fixture
            ELSE Threw(catchGetProducts(fixture.thrown)))

\* the calls the presentation layer makes
CatalogCalls(Filters) ==
  \/ fetchProducts
  \/ retryFetch
  \/ \E newFilters \in Filters : filterProducts(newFilters)

\* production: requests, backoff waits, and the dismissal of the error
CatalogNext ==
  \/ catalogOps < MaxCatalogOps /\ CatalogCalls(ProductionFilterInputs)
  \/ clearError
  \/ \E i \in 1..Len(tasks) : \E http \in HttpOutcomes : Respond(i, http)
  \/ \E i \in 1..Len(tasks) : BackoffOver(i)

\* the size checkboxes of the Filter component, and what the catalog
\* endpoint answers while they are used: a catalog, or a 404
MaxFilterOps == 3
ToggleLabels == {"S", "L"}
FilterOutcomes ==
  {HttpOk(ObjectBody(TRUE, TRUE, CatalogA)),
   HttpFailed(AxiosError("ERR_BAD_REQUEST", "Request failed with status code",
                         TRUE, 404, ""))}

\* production: the catalog is fetched on mount and the checkboxes are toggled
FilterNext ==
  \/ catalogOps < MaxFilterOps /\ fetchProducts /\ UNCHANGED toggled
  \/ catalogOps < MaxFilterOps /\ \E label \in ToggleLabels : toggleCheckbox(label)
  \/ /\ \E i \in 1..Len(tasks) : \E http \in FilterOutcomes : Respond(i, http)
     /\ UNCHANGED toggled

\* development: getProducts reads the local fixture
LocalNext ==
  \/ catalogOps < MaxLocalOps /\ CatalogCalls(FilterInputs)
  \/ clearError
  \/ \E i \in 1..Len(tasks) : LocalLoad(i)

----------------------------------------------------------------------------
(* Specifications: one per component, the others frozen in their initial   *)
(* state.                                                                  *)

CartIdle == CartAt(<<>>)

FilterIdle == toggled = {}

RetryIdle ==
  /\ retryConfig = DEFAULT_RETRY_CONFIG
  /\ pc = "call"
  /\ retryCount = 0
  /\ calls = 0
  /\ waits = <<>>
  /\ lastError = NoError
  /\ allRetryable = TRUE
  /\ retryResult = NoResult

ClassifyIdle ==
  /\ axiosError = AxiosError("ERR_NETWORK", "Network Error", FALSE, 0, "")
  /\ apiError = NoError

CatalogIdle ==
  /\ isProduction = TRUE
  /\ fixture = Returned(CatalogA)
  /\ isFetching = FALSE
  /\ catalogProducts = <<>>
  /\ filters = <<>>
  /\ allProductsCache = <<>>
  /\ isInitialized = FALSE
  /\ errorState = NullError
  /\ isRetrying = FALSE
  /\ tasks = <<>>
  /\ catalogOps = 0
  /\ catalogOp = NoCatalogOp

\* the cart, from the empty cart
Init == CartAt(<<>>) /\ RetryIdle /\ ClassifyIdle /\ CatalogIdle /\ SecurityIdle /\ FilterIdle
Next ==
  /\ CartNext(CartInputs)
  /\ UNCHANGED <<retryVars, classifyVars, catalogVars, securityVars,
               filterVars>>
Spec == Init /\ [][Next]_vars

\* the cart, from a cart one line short of its capacity
InitFull ==
  /\ CartAt(Filled(MaxCartLines - 1))
  /\ RetryIdle /\ ClassifyIdle /\ CatalogIdle /\ SecurityIdle /\ FilterIdle
NextFull ==
  /\ opCount < MaxFullOps
  /\ CartNext(FullCartInputs)
  /\ UNCHANGED <<retryVars, classifyVars, catalogVars, securityVars,
               filterVars>>
SpecFull == InitFull /\ [][NextFull]_vars

InitRetry ==
  CartIdle /\ RetryInit /\ ClassifyIdle /\ CatalogIdle /\ SecurityIdle /\ FilterIdle
NextRetry ==
  RetryNext /\ UNCHANGED <<cartVars, classifyVars, catalogVars, securityVars,
               filterVars>>
SpecRetry == InitRetry /\ [][NextRetry]_vars

InitClassify ==
  CartIdle /\ RetryIdle /\ ClassifyInit /\ CatalogIdle /\ SecurityIdle /\ FilterIdle
NextClassify ==
  ClassifyNext /\ UNCHANGED <<cartVars, retryVars, catalogVars, securityVars,
               filterVars>>
SpecClassify == InitClassify /\ [][NextClassify]_vars

\* the catalog service and its controller
InitCatalog ==
  CartIdle /\ RetryIdle /\ ClassifyIdle /\ CatalogInit(FALSE) /\ SecurityIdle /\ FilterIdle
NextCatalog ==
  CatalogNext /\ UNCHANGED <<cartVars, retryVars, classifyVars, securityVars,
               filterVars>>
SpecCatalog == InitCatalog /\ [][NextCatalog]_vars

\* the controller in development
InitLocal ==
  CartIdle /\ RetryIdle /\ ClassifyIdle /\ CatalogInit(TRUE) /\ SecurityIdle /\ FilterIdle
NextLocal ==
  LocalNext /\ UNCHANGED <<cartVars, retryVars, classifyVars, securityVars,
               filterVars>>
SpecLocal == InitLocal /\ [][NextLocal]_vars

\* the Filter component with the controller, in production
InitFilter ==
  CartIdle /\ RetryIdle /\ ClassifyIdle /\ CatalogInit(FALSE) /\ SecurityIdle
  /\ FilterIdle
NextFilter ==
  FilterNext /\ UNCHANGED <<cartVars, retryVars, classifyVars, securityVars>>
SpecFilter == InitFilter /\ [][NextFilter]_vars

\* the validators and sanitizers, each applied to one input
InitSecurity ==
  CartIdle /\ RetryIdle /\ ClassifyIdle /\ CatalogIdle /\ SecurityInit
  /\ FilterIdle
NextSecurity ==
  SecurityNext /\ UNCHANGED <<cartVars, retryVars, classifyVars, catalogVars,
                             filterVars>>
SpecSecurity == InitSecurity /\ [][NextSecurity]_vars

----------------------------------------------------------------------------
(* Properties of the cart *)

InputIsValid(p) == validateCartProduct(p).isValid
Sanitized(p) == validateCartProduct(p).sanitizedProduct
\* the quantity of a stored line, in units
QuantityOf(line) == line.quantity.m \div 1000
IsQuantity(v) ==
  /\ v.t = "number"
  /\ v.c = "fin"
  /\ v.m % 1000 = 0
  /\ v.m >= 1000
  /\ v.m <= 1000 * 1000
HasId(lines, id) == \E i \in 1..Len(lines) : lines[i].id = id
WithQuantity(line, q) == [line EXCEPT !.quantity = Num(q)]

\* C1: addProduct with a valid product whose id is already in the cart keeps
\* the number of lines, sets the quantity of the line with that id to
\* old + incoming when the sum is at most 1000 and leaves it as it was when
\* the sum exceeds 1000, and leaves every other line unchanged.
C1_AddMergesIntoExistingLine ==
  (/\ cartOp.op = "addProduct"
   /\ InputIsValid(cartOp.arg)
   /\ HasId(cartOp.before, Sanitized(cartOp.arg).id))
  => LET before == cartOp.before
         incoming == Sanitized(cartOp.arg)
     IN /\ Len(products) = Len(before)
        /\ \A i \in 1..Len(before) :
             LET sum == QuantityOf(before[i]) + QuantityOf(incoming) IN
             products[i] = IF before[i].id = incoming.id /\ sum <= 1000
                           THEN WithQuantity(before[i], sum)
                           ELSE before[i]

\* C2: no two cart lines have the same id.
C2_NoDuplicateIds ==
  \A i, j \in 1..Len(products) : i # j => products[i].id # products[j].id

\* C3: the cart never holds more than 100 lines; addProduct of a valid
\* product with a new id into a cart of 100 lines is rejected with an error
\* and the stored collection and total are left as they were.
C3_CartCapacity ==
  /\ Len(products) <= 100
  /\ (/\ cartOp.op = "addProduct"
      /\ InputIsValid(cartOp.arg)
      /\ Len(cartOp.before) = 100
      /\ ~HasId(cartOp.before, Sanitized(cartOp.arg).id))
     => /\ cartOp.outcome = "threw"
        /\ ~cartOp.wrote
        /\ products = cartOp.productsBefore
        /\ total = cartOp.totalBefore

C3_RejectedAtCapacity ==
  /\ cartOp.op = "addProduct"
  /\ InputIsValid(cartOp.arg)
  /\ cartOp.outcome = "threw"
  /\ Len(cartOp.before) = 100
  /\ ~HasId(cartOp.before, Sanitized(cartOp.arg).id)
  /\ products = cartOp.before

\* C4: every cart line has an integer quantity q with 1 <= q <= 1000.
C4_QuantityInRange ==
  \A i \in 1..Len(products) : IsQuantity(products[i].quantity)

\* a merge and a decrease were refused at the limits: the cart holds a line
\* with quantity 1000 or 1 that the last operation would have taken out of range
C4_LimitReached ==
  /\ cartOp.wrote
  /\ cartOp.op \in {"addProduct", "decreaseProductQuantity"}
  /\ Len(products) = Len(cartOp.before)
  /\ \E i \in 1..Len(products) :
       /\ products[i] = cartOp.before[i]
       /\ products[i].id = Sanitized(cartOp.arg).id
       /\ \/ /\ cartOp.op = "addProduct"
             /\ QuantityOf(products[i]) + QuantityOf(Sanitized(cartOp.arg)) > 1000
          \/ /\ cartOp.op = "decreaseProductQuantity"
             /\ QuantityOf(products[i]) = 1

\* C5: increaseProductQuantity (decreaseProductQuantity) with a valid product
\* keeps the number of lines and changes a line only if its id matches, only
\* by adding +1 (-1) to its quantity, and only to a result in 1..1000; a
\* matching line is so changed whenever the result is in 1..1000 and both the
\* line and the sanitized input pass validation.  So a decrease at quantity 1
\* and an increase at quantity 1000 leave the line in the cart as it was.
C5_QuantityStep ==
  (/\ cartOp.op \in {"increaseProductQuantity", "decreaseProductQuantity"}
   /\ InputIsValid(cartOp.arg))
  => LET before == cartOp.before
         target == Sanitized(cartOp.arg)
         delta == IF cartOp.op = "increaseProductQuantity" THEN 1 ELSE -1
     IN /\ Len(products) = Len(before)
        /\ \A i \in 1..Len(before) :
             LET stepped == QuantityOf(before[i]) + delta
                 inRange == stepped >= 1 /\ stepped <= 1000
             IN /\ \/ products[i] = before[i]
                   \/ /\ before[i].id = target.id
                      /\ inRange
                      /\ products[i] = WithQuantity(before[i], stepped)
                /\ (before[i].id = target.id /\ ~inRange)
                   => products[i] = before[i]
                /\ (before[i].id = target.id /\ inRange
                    /\ InputIsValid(before[i]) /\ InputIsValid(target))
                   => products[i] = WithQuantity(before[i], stepped)

\* a decrease on a line with quantity 1, in a cart with another line
C5_DecreaseAtOneKeepsLine ==
  /\ cartOp.op = "decreaseProductQuantity"
  /\ InputIsValid(cartOp.arg)
  /\ Len(cartOp.before) >= 2
  /\ \E i \in 1..Len(cartOp.before) :
       /\ cartOp.before[i].id = Sanitized(cartOp.arg).id
       /\ QuantityOf(cartOp.before[i]) = 1
       /\ i <= Len(products)
       /\ products[i] = cartOp.before[i]

\* C6: a cart operation whose input fails validateCartProduct writes neither
\* the cart nor the total: addProduct throws, the other three return.
C6_InvalidInputChangesNothing ==
  (cartOp.op # "none" /\ ~InputIsValid(cartOp.arg))
  => /\ ~cartOp.wrote
     /\ products = cartOp.productsBefore
     /\ total = cartOp.totalBefore
     /\ cartOp.outcome = IF cartOp.op = "addProduct" THEN "threw" ELSE "returned"

\* an invalid product was passed to removeProduct while its id was in the cart
C6_InvalidRemoveOfPresentLine ==
  /\ cartOp.op = "removeProduct"
  /\ ~InputIsValid(cartOp.arg)
  /\ cartOp.arg.t = "object"
  /\ HasId(cartOp.before, cartOp.arg.id)
  /\ HasId(products, cartOp.arg.id)

----------------------------------------------------------------------------
(* Properties of the retry engine and of the classification *)

\* C7: when every attempt fails with a retryable error, the operation is
\* invoked exactly maxRetries + 1 times (4 with the default configuration)
\* and retryWithBackoff fails with the classified error; the number of
\* invocations never exceeds maxRetries + 1.
C7_RetryTerminates ==
  /\ calls <= retryConfig.maxRetries + 1
  /\ (pc = "done" /\ retryResult.kind = "error" /\ allRetryable)
     => /\ calls = retryConfig.maxRetries + 1
        /\ retryResult.error = lastError
        /\ (retryConfig = DEFAULT_RETRY_CONFIG => calls = 4)

C7_GaveUpAfterFourCalls ==
  /\ pc = "done"
  /\ retryResult.kind = "error"
  /\ allRetryable
  /\ retryConfig = DEFAULT_RETRY_CONFIG
  /\ calls = 4

\* C8: a failure classified as not retryable is propagated at once: no
\* backoff wait follows it and the operation is not invoked again, whatever
\* the retryCount.
C8_NonRetryablePropagatesAtOnce ==
  (lastError # NoError /\ ~lastError.isRetryable)
  => /\ pc = "done"
     /\ retryResult = [kind |-> "error", error |-> lastError]
     /\ calls = retryCount + 1
     /\ Len(waits) = retryCount

C8_NonRetryableAfterRetries ==
  /\ lastError # NoError
  /\ ~lastError.isRetryable
  /\ retryCount >= 2
  /\ pc = "done"

\* C9: the wait after the failed attempt with retryCount = n is
\* min(retryDelay * backoffMultiplier^n, maxRetryDelay); the waits are
\* non-decreasing and never exceed maxRetryDelay; with the configuration of
\* the catalog service they are 1000, 2000 and 4000 ms.
C9_BackoffWaits ==
  /\ \A i \in 1..Len(waits) :
       LET n == i - 1
           raw == retryConfig.retryDelay * Pow(retryConfig.backoffMultiplier, n)
       IN /\ waits[i] = IF raw < retryConfig.maxRetryDelay
                        THEN raw ELSE retryConfig.maxRetryDelay
          /\ waits[i] <= retryConfig.maxRetryDelay
          /\ i > 1 => waits[i - 1] <= waits[i]
  /\ retryConfig = CatalogRetryConfig
     => \A i \in 1..Len(waits) : waits[i] = <<1000, 2000, 4000>>[i]

C9_CatalogWaits ==
  /\ retryConfig = CatalogRetryConfig
  /\ waits = <<1000, 2000, 4000>>

\* C10: every HTTP failure with a status from 500 to 599 is classified as a
\* ServerError and is retryable.
C10_Every5xxIsServerError ==
  (apiError # NoError /\ axiosError.hasResponse
   /\ axiosError.status >= 500 /\ axiosError.status <= 599)
  => apiError.name = "ServerError" /\ apiError.isRetryable

\* a failure without a response, or a timeout
IsTransportFailure(e) ==
  ~e.hasResponse \/ e.code = "ECONNABORTED" \/ IncludesTimeout(e.message)

\* C11: a failure with no response or a timeout is classified as a
\* NetworkError with isRetryable = true; among the other failures status 400
\* gives a ValidationError with isRetryable = false, statuses 401, 403 and 404
\* give isRetryable = false and every other status gives isRetryable = true;
\* no ValidationError is retryable and every NetworkError is.
C11_ClassificationFixesRetryability ==
  apiError # NoError =>
    /\ IsTransportFailure(axiosError)
         => apiError.name = "NetworkError" /\ apiError.isRetryable
    /\ (~IsTransportFailure(axiosError) /\ axiosError.status = 400)
         => apiError.name = "ValidationError" /\ ~apiError.isRetryable
    /\ (~IsTransportFailure(axiosError) /\ axiosError.status \in {401, 403, 404})
         => ~apiError.isRetryable
    /\ (~IsTransportFailure(axiosError)
        /\ axiosError.status \notin {400, 401, 403, 404})
         => apiError.isRetryable
    /\ apiError.name = "ValidationError" => ~apiError.isRetryable
    /\ apiError.name = "NetworkError" => apiError.isRetryable

\* a status 400 response has been classified
C11_BadRequestClassified ==
  /\ apiError # NoError
  /\ axiosError.hasResponse
  /\ axiosError.status = 400
  /\ apiError.name = "ValidationError"

----------------------------------------------------------------------------
(* The catalog service and its controller *)

\* C12: in production, when the first response of an operation holds a
\* product that lacks one of id, sku, title, price, availableSizes, the
\* operation ends with a ValidationError after exactly one request.
C12_IncompleteProductFailsAtOnce ==
  (isProduction /\ catalogOp.done.firstIncomplete)
  => /\ catalogOp.done.outcome = "failure"
     /\ catalogOp.done.errorName = "ValidationError"
     /\ catalogOp.done.calls = 1

\* the classes of error the catalog service documents
ClassifiedNames == {"NetworkError", "ValidationError", "ServerError", "APIError"}

\* C13: a failure of getProducts reaches the controller as a NetworkError, a
\* ValidationError, a ServerError or a generic APIError, and the controller
\* never takes its branch for unclassified errors.
C13_FailuresAreClassified ==
  (catalogOp.done.outcome = "failure" /\ catalogOp.done.thrownBy = "getProducts")
  => /\ catalogOp.done.errorName \in ClassifiedNames
     /\ catalogOp.done.branch \in {"network", "validation", "api"}

\* a server failure outlived the retries and was handled by the controller
C13_ServerErrorHandled ==
  /\ catalogOp.done.outcome = "failure"
  /\ catalogOp.done.errorName = "ServerError"
  /\ catalogOp.done.calls = CatalogRetryConfig.maxRetries + 1
  /\ errorState.type = "server"

\* C14: once every catalog operation that was started has settled, the
\* fetching flag is false.
C14_FetchingFlagCleared ==
  (catalogOps > 0 /\ tasks = <<>>) => ~isFetching

\* a fetchProducts call has failed and nothing is in flight
C14_FailedFetchSettled ==
  /\ tasks = <<>>
  /\ catalogOp.done.op = "fetchProducts"
  /\ catalogOp.done.outcome = "failure"
  /\ ~isFetching

\* C15: after a successful fetchProducts the cache and the product
\* collection equal the fetched catalog and no error is stored, also when
\* other operations overlap with it.
C15_SuccessfulFetchLeavesNoError ==
  (catalogOp.done.op = "fetchProducts" /\ catalogOp.done.outcome = "success")
  => /\ allProductsCache = catalogOp.done.value
     /\ catalogProducts = catalogOp.done.value
     /\ errorState = NullError

\* C16: a filterProducts call made after a fetch has succeeded does not
\* call the catalog service.
C16_NoRequestAfterSuccess ==
  (catalogOp.called.op = "filterProducts" /\ catalogOp.called.succeededBefore)
  => ~catalogOp.called.network

\* the operation that completed last is a successful filterProducts
FilterSucceeded ==
  catalogOp.done.op = "filterProducts" /\ catalogOp.done.outcome = "success"

\* the sizes named by a selection, and the products of a list that have one
SizesOf(selection) == {selection[j] : j \in 1..Len(selection)}
Sharing(list, selection) ==
  LET shares(product) ==
        SizesOf(product.availableSizes) \cap SizesOf(selection) # {}
  IN SelectSeq(list, shares)

\* C17: after a successful filterProducts(F) the exposed list is the cached
\* products, in cache order, that have a size in F, and the whole cache when
\* F is empty; a selection naming the same sizes in another order or with
\* repetitions gives the same list.
C17_ExposedListIsCacheFiltered ==
  FilterSucceeded
  => /\ filteredProducts =
          IF catalogOp.done.newFilters = <<>> THEN allProductsCache
          ELSE Sharing(allProductsCache, catalogOp.done.newFilters)
     /\ \A other \in FilterInputs :
          SizesOf(other) = SizesOf(catalogOp.done.newFilters)
          => filterBySizes(allProductsCache, other) = filteredProducts

\* a selection with a repeated size has cut the three cached products to two
C17_RepeatedSizesFiltered ==
  /\ FilterSucceeded
  /\ catalogOp.done.newFilters = <<"M", "S", "M">>
  /\ allProductsCache = CatalogA
  /\ Len(filteredProducts) = 2

\* C18: when filterProducts(F) completes right after a filterProducts(F)
\* and the cache is the same, the selection and the exposed list are what
\* they were; and the exposed list, which filters the stored F-filtered
\* list by F again, equals the stored list.
C18_FilteringIsIdempotent ==
  /\ [][(/\ catalogOp'.done.seq # catalogOp.done.seq
          /\ FilterSucceeded
          /\ FilterSucceeded'
          /\ catalogOp'.done.newFilters = catalogOp.done.newFilters
          /\ allProductsCache' = allProductsCache)
        => (filters' = filters /\ filteredProducts' = filteredProducts)]_vars
  /\ [](FilterSucceeded
        => /\ filteredProducts = catalogProducts
           /\ filterBySizes(filteredProducts, catalogOp.done.newFilters)
                = filteredProducts)

\* filterProducts(<<"L">>) has completed twice in a row on the same cache
C18_SameFilterTwice ==
  /\ FilterSucceeded
  /\ catalogOp.prev.op = "filterProducts"
  /\ catalogOp.prev.outcome = "success"
  /\ catalogOp.prev.newFilters = <<"L">>
  /\ catalogOp.done.newFilters = <<"L">>
  /\ catalogOp.prev.value = CatalogA
  /\ allProductsCache = CatalogA
  /\ Len(filteredProducts) = 1

\* C19: retryFetch calls the catalog service exactly when the stored error
\* is non-null and retryable, and otherwise changes nothing; the error
\* display offers retry exactly for a displayed error that is retryable, and
\* dismiss for every displayed error.
C19_RetryOnlyWhenRetryable ==
  /\ [](/\ catalogOp.called.op = "retryFetch"
           => (catalogOp.called.network
                 <=> /\ catalogOp.called.errorBefore # NullError
                     /\ catalogOp.called.errorBefore.isRetryable)
        /\ retryOffered <=> (errorState # NullError /\ errorState.isRetryable)
        /\ dismissOffered <=> errorState # NullError)
  /\ [][(/\ catalogOp'.called.seq # catalogOp.called.seq
          /\ catalogOp'.called.op = "retryFetch"
          /\ ~catalogOp'.called.network)
        => UNCHANGED <<isFetching, catalogProducts, filters, allProductsCache,
                       isInitialized, errorState, isRetrying, tasks>>]_vars

\* a retry called on a stored network error has fetched the catalog
C19_RetrySucceeded ==
  /\ catalogOp.called.op = "retryFetch"
  /\ catalogOp.called.network
  /\ catalogOp.called.errorBefore.type = "network"
  /\ catalogOp.done.op = "retryFetch"
  /\ catalogOp.done.outcome = "success"

\* operations that store the fetched catalog unfiltered
FetchOps == {"fetchProducts", "retryFetch"}

\* C20: when the last two completions are successful fetches, the cache and
\* the product collection hold the catalog of the one that completed last,
\* whichever was issued first.
C20_LastResolvedWins ==
  (/\ catalogOp.done.op \in FetchOps /\ catalogOp.done.outcome = "success"
   /\ catalogOp.prev.op \in FetchOps /\ catalogOp.prev.outcome = "success")
  => /\ allProductsCache = catalogOp.done.value
     /\ catalogProducts = catalogOp.done.value

\* the fetch issued first resolved last and replaced the newer catalog
C20_OlderOverwroteNewer ==
  /\ catalogOp.done.op = "fetchProducts" /\ catalogOp.done.outcome = "success"
  /\ catalogOp.prev.op = "fetchProducts" /\ catalogOp.prev.outcome = "success"
  /\ catalogOp.prev.seq > catalogOp.done.seq
  /\ catalogOp.prev.value = CatalogA
  /\ catalogOp.done.value = CatalogB
  /\ allProductsCache = CatalogB
  /\ catalogProducts = CatalogB

----------------------------------------------------------------------------
(* Properties of the validators and sanitizers *)

\* the function fn has been applied to the input
Evaluated(fn) == verdict.done /\ checked.fn = fn

\* whether the property `name` of the object p fails its validator, and the
\* message validateProduct gives for it
FailsValidator(p, name) ==
  CASE name = "id" -> validateProductId(p.id) = Null
    [] name = "sku" -> validateProductSku(p.sku) = Null
    [] name = "title" -> sanitizeProductTitle(p.title) \in {<<>>, UnknownProduct}
    [] name = "price" -> validateProductPrice(p.price) = Null
    [] name = "currencyId" -> validateCurrencyId(p.currencyId) = Null
    [] name = "currencyFormat" -> validateCurrencyFormat(p.currencyFormat) = Null
    [] name = "style" -> validateProductStyle(p.style) = Null

MessageFor(name) ==
  CASE name = "id" -> "Invalid product ID"
    [] name = "sku" -> "Invalid product SKU"
    [] name = "title" -> "Invalid product title"
    [] name = "price" -> "Invalid product price"
    [] name = "currencyId" -> "Invalid currency ID"
    [] name = "currencyFormat" -> "Invalid currency format"
    [] name = "style" -> "Invalid product style"

FailedNames(p) == {name \in RequiredNames : FailsValidator(p, name)}

SameRequired(p, q) ==
  /\ p.id = q.id /\ p.sku = q.sku /\ p.title = q.title /\ p.price = q.price
  /\ p.currencyId = q.currencyId /\ p.currencyFormat = q.currencyFormat
  /\ p.style = q.style

\* C21: validateProduct on an object is valid exactly when id, sku, title,
\* price, currencyId, currencyFormat and style pass their validators; errors
\* holds exactly one message for each of them that failed; objects that
\* differ only in description, availableSizes, installments, isFreeShipping
\* get the same isValid; a failed currencyId, currencyFormat or style leaves
\* 'USD', '$' or 'Unknown' in the sanitized product.
C21_ValidOnRequiredFieldsOnly ==
  (Evaluated("validateProduct") /\ checked.input.t \in {"object", "array"})
  => LET p == propertiesOf(checked.input)
         result == verdict.value
     IN /\ result.isValid <=> FailedNames(p) = {}
        /\ Len(result.errors) = Cardinality(FailedNames(p))
        /\ \A name \in FailedNames(p) :
             Cardinality({i \in 1..Len(result.errors) :
                            result.errors[i] = MessageFor(name)}) = 1
        /\ \A q \in {o \in ProductInputs : o.t = "object"} :
             SameRequired(p, q) => validateProduct(q).isValid = result.isValid
        /\ FailsValidator(p, "currencyId")
             => result.sanitizedProduct.currencyId = Str(USD)
        /\ FailsValidator(p, "currencyFormat")
             => result.sanitizedProduct.currencyFormat = Str(Dollar)
        /\ FailsValidator(p, "style")
             => result.sanitizedProduct.style = Str(UnknownStyle)

\* a product whose currencyId and style fail and whose optional properties
\* are all of the wrong kind has been validated
C21_TwoFieldsFailed ==
  /\ Evaluated("validateProduct")
  /\ checked.input = SampleProduct({"currencyId", "style"}, OptionalNames)
  /\ ~verdict.value.isValid
  /\ verdict.value.errors = <<"Invalid currency ID", "Invalid product style">>
  /\ verdict.value.sanitizedProduct.currencyId = Str(USD)

\* the number n, after Number(), is an integer from 1 to 1000
IsQuantityInput(v) ==
  LET n == ToNumber(v)
  IN n.c = "fin" /\ n.m % 1000 = 0 /\ n.m >= 1000 /\ n.m <= 1000 * 1000

\* C22: validateCartProduct is valid exactly when validateProduct is and the
\* quantity is an integer in 1..1000; when validateProduct fails its result
\* is returned as it is; when only the quantity fails the errors are the
\* quantity error alone.
C22_CartProductAddsQuantity ==
  Evaluated("validateCartProduct")
  => LET base == validateProduct(checked.input)
         result == verdict.value
     IN /\ result.isValid
             <=> (base.isValid /\ IsQuantityInput(checked.input.quantity))
        /\ ~base.isValid => result = base
        /\ (base.isValid /\ ~IsQuantityInput(checked.input.quantity))
             => result.errors = <<"Invalid product quantity">>

\* a valid product with the quantity 1001 has been validated
C22_OnlyQuantityFailed ==
  /\ Evaluated("validateCartProduct")
  /\ checked.input.t = "object"
  /\ validateProduct(checked.input).isValid
  /\ checked.input.quantity = Num(1001)
  /\ ~verdict.value.isValid
  /\ verdict.value.errors = <<"Invalid product quantity">>

EndsWithEllipsis(text) ==
  Len(text) >= 3 /\ SubSeq(text, Len(text) - 2, Len(text)) = Ellipsis

\* C23, as stated: for a string longer than 100 characters the title has at
\* most 103 characters and ends with '...'; no title exceeds 103 characters.
C23_LongInputEndsWithEllipsis ==
  (Evaluated("sanitizeProductTitle") /\ IsString(checked.input))
  => /\ Len(verdict.value) <= 103
     /\ Len(checked.input.s) > 100 => EndsWithEllipsis(verdict.value)

\* C23, amended: the limit applies to the title after its tags are removed
\* and its characters are encoded.  When that text has more than 100
\* characters the title is its first 100 characters followed by '...';
\* otherwise the title is that text; no title exceeds 103 characters.
C23_LongSanitizedTitleEndsWithEllipsis ==
  (Evaluated("sanitizeProductTitle") /\ IsString(checked.input))
  => LET sanitized == sanitizeHtml(Str(StripTags(checked.input.s)))
     IN /\ Len(verdict.value) <= 103
        /\ Len(sanitized) > 100
             => /\ Len(verdict.value) = 103
                /\ SubSeq(verdict.value, 1, 100) = SubSeq(sanitized, 1, 100)
                /\ EndsWithEllipsis(verdict.value)
        /\ Len(sanitized) <= 100 => verdict.value = sanitized

\* a title of 21 ampersands, 105 characters once encoded, has been cut
C23_EncodedTitleCut ==
  /\ Evaluated("sanitizeProductTitle")
  /\ checked.input = Str(Rep("&", 21))
  /\ Len(verdict.value) = 103
  /\ EndsWithEllipsis(verdict.value)

\* C24: validateProductPrice(p) is null or a value in [0, 1000000] with at
\* most 2 decimals that is p rounded half up to 2 decimals; it is null for
\* p < 0 and for p > 1000000; validateProductPrice(19.995) is 20.00.
C24_PriceRoundedToCents ==
  (Evaluated("validateProductPrice") /\ ToNumber(checked.input).c = "fin")
  => LET p == ToNumber(checked.input).m
         result == verdict.value
     IN /\ \/ result = Null
           \/ /\ result.t = "number" /\ result.c = "fin"
              /\ result.m >= 0 /\ result.m <= 1000000 * 1000
              /\ result.m % 10 = 0
              /\ result.m = ((p + 5) \div 10) * 10
        /\ (p < 0 \/ p > 1000000 * 1000) => result = Null
        /\ p = 19995 => result = Milli(20000)

ForbiddenChars == {"<", ">", "\"", "'", "/", Backtick, "="}

Occurrences(text, chars) ==
  Cardinality({i \in 1..Len(text) : text[i] \in chars})

\* C25: for a string the output of sanitizeHtml holds none of the
\* characters < > " ' / ` = and one & for each of them and for each & of the
\* input (the start of its entity); a string without these characters is
\* returned as it is; for any other input the output is the empty string.
C25_NoMarkupCharacterLeft ==
  Evaluated("sanitizeHtml")
  => IF IsString(checked.input)
     THEN /\ Occurrences(verdict.value, ForbiddenChars) = 0
          /\ Occurrences(verdict.value, {"&"})
               = Occurrences(checked.input.s, ForbiddenChars \cup {"&"})
          /\ Occurrences(checked.input.s, ForbiddenChars \cup {"&"}) = 0
               => verdict.value = checked.input.s
          /\ checked.input.s = <<"a", "&", "b">>
               => verdict.value = <<"a", "&", "a", "m", "p", ";", "b">>
     ELSE verdict.value = <<>>

\* the image tag with an onerror handler has been encoded
C25_ImageTagEncoded ==
  /\ Evaluated("sanitizeHtml")
  /\ checked.input = Str(ImgTag)
  /\ Len(verdict.value) > Len(ImgTag)
  /\ SubSeq(verdict.value, 1, 4) = <<"&", "l", "t", ";">>

\* C26: validateAvailableSizes returns the upper-cased form of the items
\* that are strings matching the whitelist of 7 sizes without regard to
\* case, in input order, cut to the first 10; every element is in the
\* whitelist; an input that is no array gives the empty sequence;
\* ["m", "zz", "L"] gives ["M", "L"].
C26_SizesFilteredAndCapped ==
  Evaluated("validateAvailableSizes")
  => IF checked.input.t = "array"
     THEN LET matches(item) ==
                item.t = "string" /\ toUpperCase(item.s) \in validSizes
              kept == SelectSeq(checked.input.a, matches)
              result == verdict.value.a
          IN /\ Cardinality(validSizes) = 7
             /\ Len(result) = Min(Len(kept), 10)
             /\ \A i \in 1..Len(result) :
                  /\ result[i] = Str(toUpperCase(kept[i].s))
                  /\ result[i].s \in validSizes
             /\ checked.input = Arr(<<SizeM, Str(<<"z", "z">>), Str(<<"L">>)>>)
                  => result = <<Str(<<"M">>), Str(<<"L">>)>>
     ELSE verdict.value = Arr(<<>>)

\* an array with 11 matching items has been cut to 10
C26_EleventhSizeDropped ==
  /\ Evaluated("validateAvailableSizes")
  /\ checked.input = Arr(Rep(Str(<<"x", "l">>), 11))
  /\ Len(verdict.value.a) = 10

----------------------------------------------------------------------------
(* Properties of one retryWithBackoff call as a whole *)

\* invocations of the operation that have begun and not yet settled: every
\* settled one either led to a backoff wait or ended the call
InvocationsInProgress ==
  calls - Len(waits) - (IF pc = "done" THEN 1 ELSE 0)

\* C27: retryWithBackoff invokes the operation at most maxRetries + 1 times
\* and never has two invocations in progress; an invocation after the first
\* begins only when the one before it has failed with a retryable error and
\* its backoff timer has fired; once an invocation has succeeded its result
\* is returned and the operation is not invoked again.
C27_AttemptsAreSequential ==
  /\ [](/\ calls <= retryConfig.maxRetries + 1
        /\ InvocationsInProgress \in {0, 1}
        /\ InvocationsInProgress = 1 <=> pc = "await"
        /\ retryResult.kind = "value"
             => pc = "done" /\ Len(waits) = calls - 1)
  /\ [][(calls' # calls
          => /\ calls' = calls + 1
             /\ InvocationsInProgress = 0
             /\ retryResult = NoResult
             /\ (calls > 0
                  => /\ lastError # NoError /\ lastError.isRetryable
                     /\ Len(waits) = calls
                     /\ retryCount = calls))
        /\ (retryResult # NoResult
             => (calls' = calls /\ retryResult' = retryResult /\ pc' = pc))
       ]_vars

\* the third invocation succeeded after two failures and two backoff waits
C27_ThirdAttemptSucceeded ==
  /\ pc = "done"
  /\ retryResult.kind = "value"
  /\ calls = 3
  /\ retryCount = 2
  /\ Len(waits) = 2

----------------------------------------------------------------------------
(* Properties of a failing catalog operation *)

\* the type handleError stores for an error of the class errorName
StoredTypes(errorName) ==
  CASE errorName = "NetworkError" -> {"network"}
    [] errorName = "ValidationError" -> {"validation"}
    [] errorName \in {"ServerError", "APIError"} -> {"server", "unknown"}
    [] OTHER -> {"unknown"}

\* C28: the step in which fetchProducts, retryFetch or filterProducts ends
\* with a failure leaves the cache, the product collection and the filter
\* selection as they were and stores the classification of the failure.
C28_FailureChangesNothing ==
  [][(/\ catalogOp'.done.seq # catalogOp.done.seq
      /\ catalogOp'.done.outcome = "failure")
     => /\ UNCHANGED <<allProductsCache, catalogProducts, filters>>
        /\ errorState' # NullError
        /\ errorState'.type \in StoredTypes(catalogOp'.done.errorName)]_vars

----------------------------------------------------------------------------
(* Properties of the cart: removal and the total *)

\* C29: removeProduct with a valid product writes the lines it read without
\* the line that has the product's id and without the lines that fail
\* validation; the other lines are kept as they were and in their order;
\* when no line has the id and every line is valid the content is unchanged.
C29_RemoveDropsMatchAndInvalidLines ==
  (cartOp.op = "removeProduct" /\ InputIsValid(cartOp.arg))
  => LET before == cartOp.before
         id == Sanitized(cartOp.arg).id
         stays(line) == InputIsValid(line) /\ line.id # id
     IN /\ cartOp.wrote
        /\ products = SelectSeq(before, stays)
        /\ ~HasId(products, id)
        /\ \A i \in 1..Len(products) : InputIsValid(products[i])
        /\ (~HasId(before, id) /\ \A i \in 1..Len(before) : InputIsValid(before[i]))
             => products = before

\* removeProduct of a product that is not in the cart has dropped a stored
\* line that fails validation and kept the valid line
C29_InvalidLineDropped ==
  /\ cartOp.op = "removeProduct"
  /\ InputIsValid(cartOp.arg)
  /\ Len(cartOp.before) = 2
  /\ ~InputIsValid(cartOp.before[1])
  /\ InputIsValid(cartOp.before[2])
  /\ ~HasId(cartOp.before, Sanitized(cartOp.arg).id)
  /\ products = <<cartOp.before[2]>>

\* C30: every operation that writes the collection computes the total from
\* the collection it writes, so the total is always the fold over the
\* stored lines.
C30_TotalFollowsCollection ==
  /\ [](total = CartTotal(products))
  /\ [][cartOp'.wrote /\ cartOp' # cartOp
          => (total' = CartTotal(products')
              /\ cartOp'.op \in {"addProduct", "removeProduct",
                                 "increaseProductQuantity",
                                 "decreaseProductQuantity"})]_vars

\* a decrease has written the line with 998 units and the total follows
C30_TotalAfterDecrease ==
  /\ cartOp.op = "decreaseProductQuantity"
  /\ cartOp.wrote
  /\ Len(products) = 1
  /\ QuantityOf(products[1]) = 998
  /\ total.productQuantity = 998
  /\ total # cartOp.totalBefore

----------------------------------------------------------------------------
(* Properties of the exposed cart *)

\* C31: the exposed list has the length and the order of the collection the
\* hook was evaluated on: a valid line appears at its index as its sanitized
\* form, a line that fails validation appears at its index as the
\* placeholder with id 0, quantity 0, price 0 and title 'Invalid Product';
\* once the hook has been evaluated on the stored collection no stored line
\* is omitted.
C31_ExposedListMirrorsCollection ==
  /\ Len(exposedProducts) = Len(snapshot)
  /\ snapshot = products => Len(exposedProducts) = Len(products)
  /\ \A i \in 1..Len(snapshot) :
       IF InputIsValid(snapshot[i])
       THEN /\ exposedProducts[i] = Sanitized(snapshot[i])
            /\ exposedProducts[i].id = snapshot[i].id
       ELSE /\ exposedProducts[i].id = Num(0)
            /\ exposedProducts[i].quantity = Num(0)
            /\ exposedProducts[i].price = Num(0)
            /\ exposedProducts[i].title = Str(InvalidProductTitle)

\* the hook was evaluated on a line that fails validation followed by a
\* valid line
C31_PlaceholderShown ==
  /\ snapshot = products
  /\ Len(snapshot) = 2
  /\ ~InputIsValid(snapshot[1])
  /\ InputIsValid(snapshot[2])
  /\ exposedProducts[1] = InvalidPlaceholder
  /\ exposedProducts[2].id = snapshot[2].id

----------------------------------------------------------------------------
(* Properties of the stored error *)

\* the type the controller derives from a classified error
DerivedType(error) ==
  CASE error.name = "NetworkError" -> "network"
    [] error.name = "ValidationError" -> "validation"
    [] OTHER -> IF error.status >= 500 THEN "server" ELSE "unknown"

\* C32: when an operation ends with a failure of the catalog service, the
\* stored error has the type derived from the kind of the classified error
\* (network, validation, or server/unknown by the status) and the
\* isRetryable flag of that error: true for a NetworkError, false for a
\* ValidationError; a stored error of type validation is never retryable.
C32_StoredErrorFollowsClassification ==
  /\ [][(/\ catalogOp'.done.seq # catalogOp.done.seq
         /\ catalogOp'.done.outcome = "failure"
         /\ catalogOp'.done.thrownBy = "getProducts")
        => LET error == catalogOp'.done.apiError
           IN /\ error # NoError
              /\ errorState'.type = DerivedType(error)
              /\ errorState'.isRetryable = error.isRetryable
              /\ error.name = "NetworkError" => errorState'.isRetryable
              /\ error.name = "ValidationError" => ~errorState'.isRetryable]_vars
  /\ [](errorState.type = "validation" => ~errorState.isRetryable)

\* a 404 answer has been stored as an error of type unknown that is not
\* retryable
C32_NotFoundStored ==
  /\ catalogOp.done.outcome = "failure"
  /\ catalogOp.done.apiError.name = "APIError"
  /\ catalogOp.done.apiError.status = 404
  /\ errorState.type = "unknown"
  /\ ~errorState.isRetryable

\* C39: the retryCount of the stored error is 0 however many retries were
\* made, and the error display never shows an attempt number.
C39_StoredRetryCountIsZero ==
  errorState.retryCount = 0 /\ ~attemptShown

\* a network failure was stored after the request had been made 4 times
C39_StoredAfterThreeRetries ==
  /\ catalogOp.done.outcome = "failure"
  /\ catalogOp.done.calls = CatalogRetryConfig.maxRetries + 1
  /\ catalogOp.done.apiError.name = "NetworkError"
  /\ errorState.type = "network"
  /\ errorDisplayed
  /\ errorState.retryCount = 0

----------------------------------------------------------------------------
(* Properties of the message of a classified failure *)

\* C33: two HTTP failures with the same status are classified with the same
\* message, whatever their response bodies hold.
C33_MessageFixedByStatus ==
  (apiError # NoError /\ ~IsTransportFailure(axiosError))
  => \A other \in ResponseFailures :
       other.status = axiosError.status
       => parseAxiosError(other).message = apiError.message

----------------------------------------------------------------------------
(* Properties of the exposed catalog *)

\* C34: when no catalog operation is in flight the exposed list is the
\* cache filtered by the selection: the cached products that have a selected
\* size, in cache order, and the whole cache when the selection is empty.
C34_ExposedListIsFilteredCache ==
  tasks = <<>>
  => filteredProducts = IF filters = <<>> THEN allProductsCache
                        ELSE Sharing(allProductsCache, filters)

----------------------------------------------------------------------------
(* Properties of validation applied to its own output *)

\* C35: when the sanitized product s of a valid cart product is validated
\* again, the result is valid and its sanitized product equals s.
C35_ValidationIsIdempotent ==
  Evaluated(ValidatedAgain)
  => /\ verdict.value.isValid
     /\ verdict.value.sanitizedProduct = checked.input

----------------------------------------------------------------------------
(* Properties of the fetching flag *)

\* C36: while a fetchProducts or filterProducts call is awaiting the
\* catalog service, isFetching and isLoading are true.
C36_FetchingWhileAwaited ==
  (\E i \in 1..Len(tasks) : tasks[i].op \in {"fetchProducts", "filterProducts"})
  => (isFetching /\ isLoading)

----------------------------------------------------------------------------
(* Properties of the size checkboxes *)

\* C37: once every filterProducts call started by a toggle has completed,
\* the selection holds exactly the labels toggled an odd number of times,
\* each of them once.
C37_SelectionIsOddToggles ==
  (\A i \in 1..Len(tasks) : tasks[i].op # "filterProducts")
  => /\ SizesOf(filters) = toggled
     /\ \A i, j \in 1..Len(filters) : i # j => filters[i] # filters[j]

----------------------------------------------------------------------------
(* Properties of cart operations invoked on the same snapshot *)

\* the collection an operation computes from the lines it is applied to
AppliedTo(op, sanitizedProduct, lines) ==
  CASE op = "addProduct" ->
         IF findExistingIndex(lines, sanitizedProduct) # 0
         THEN mergeQuantity(lines, findExistingIndex(lines, sanitizedProduct),
                            sanitizedProduct)
         ELSE Append(lines, sanitizedProduct)
    [] op = "removeProduct" -> removeLines(lines, sanitizedProduct)
    [] op = "increaseProductQuantity" ->
         changeQuantities(lines, sanitizedProduct, 1)
    [] op = "decreaseProductQuantity" ->
         changeQuantities(lines, sanitizedProduct, -1)

\* C38: an operation that writes the cart writes the collection it computes
\* from the snapshot captured when the hook was last evaluated, whatever the
\* stored collection holds by then, so of two operations invoked on the same
\* snapshot only the second takes effect; no operation changes the snapshot
\* itself.
C38_WritesFromSnapshot ==
  [][opCount' # opCount
     => /\ snapshot' = snapshot
        /\ cartOp'.before = snapshot
        /\ cartOp'.wrote
             => products' = AppliedTo(cartOp'.op, Sanitized(cartOp'.arg), snapshot)]_vars

\* two products were added on the same empty snapshot and only the second
\* is in the cart
C38_FirstAddLost ==
  /\ cartOp.op = "addProduct"
  /\ cartOp.wrote
  /\ cartOp.before = <<>>
  /\ snapshot = <<>>
  /\ Len(cartOp.productsBefore) = 1
  /\ Len(products) = 1
  /\ products[1].id # cartOp.productsBefore[1].id

====
